---- MODULE Spec2Model ----
(***************************************************************************)
(* Update orchestration engine of the Aleo oracle gateway:                 *)
(*   - the retry wrapper (src/utils/pRetry.ts) and the two submission      *)
(*     functions it wraps (leoExecutor.ts, provableDelegatedProving.ts),   *)
(*   - notarizer failover (OracleService.getAttestationReport),            *)
(*   - the per-coin cron jobs and their executions (OracleService).        *)
(* Three specifications share the module: SpecRetry (one call of retry),   *)
(* SpecAttest (one call of getAttestationReport) and Spec (the scheduler). *)
(***************************************************************************)
EXTENDS Integers, Sequences, FiniteSets, TLC

VARIABLES
    \* ---- one call of retry({func, label, retries}) ----
    caller,          \* which func is wrapped: "generic", "executeLeo", "delegated"
    retries,         \* the retries option handed to pRetry
    broadcast,       \* delegatedConfig.broadcast ?? true
    retryPc,         \* "func", "onFailedAttempt", "resolved", "rejected", "off"
    funcStep,        \* position inside the running func
    attemptNumber,   \* pRetry's attemptNumber: invocations of func so far
    retriesConsumed, \* pRetry's retriesConsumed
    thrown,          \* errors func rejected with, in order (what pRetry saw)
    raised,          \* errors raised inside func before its own catch, in order
    surfaced         \* the error retry() rejected with, or NoError

retryVars == <<caller, retries, broadcast, retryPc, funcStep, attemptNumber,
               retriesConsumed, thrown, raised, surfaced>>

VARIABLES
    \* ---- one call of getAttestationReport(coinName) ----
    notarizers,          \* oracleConfig.notarizers, a list of endpoints
    shuffledNotarizers,  \* the working list the loop splices
    attestPc,            \* "notarize", "returned", "threw", "off"
    selectedNotarizer,   \* the notarizer of the request in flight
    success,             \* the loop's success flag
    errorMsg,            \* the loop's errorMsg
    result,              \* the loop's result, or NoResult
    attestThrown,        \* message of the error the call threw, or NoMsg
    requests,            \* notarizers a request was issued to, in order
    caught,              \* messages of the errors the inner catch saw, in order
    notarizeResult       \* what the last settled notarize() returned

attestVars == <<notarizers, shuffledNotarizers, attestPc, selectedNotarizer,
                success, errorMsg, result, attestThrown, requests, caught,
                notarizeResult>>

VARIABLES
    \* ---- OracleService: the cron jobs and their executions ----
    isInitialized,  \* this.isInitialized
    files,          \* the file system: path -> lines written
    cronJob,        \* job -> whether this.<kind>PriceUpdateCronJob[coin] is set
    activeTimers,   \* job -> CronJob objects started and not stopped
    stats,          \* job -> this.<kind>PriceUpdateStats[coin]: 0 (absent) or
                    \*        the position of the CoinStats object in heap[job]
    heap,           \* job -> the CoinStats objects allocated for it, in order
    runs,           \* the executions of handle<Kind>PriceUpdateCron, in order
    restarted,      \* the jobs a Start call found started, since their last Stop
    config,         \* the cron configuration the service reads: per job
                    \* enabled and whether its schedule is a valid cron
                    \* expression, per coin the deviation threshold
    retrievals,     \* per coin, the calls of getAttestationReport that
                    \* returned a report
    cronError       \* the last call of a cron method (or of initialize)
                    \* threw

schedVars == <<isInitialized, files, cronJob, activeTimers, stats, heap, runs,
               restarted, config, retrievals, cronError>>

VARIABLES
    \* ---- one call of checkTokenPriceDeviation ----
    evalPc,         \* "off", "call" or "returned"
    evalCoin,       \* coinName
    evalCurrent,    \* currentPrice
    evalLast,       \* lastPriceData
    evalResult      \* the value returned

evalVars == <<evalPc, evalCoin, evalCurrent, evalLast, evalResult>>

VARIABLES
    \* ---- one call of executeLeo: the subprocess of the current attempt ----
    leoPc,          \* "off", "running", "resolved" or "rejected"
    leoAttempt,     \* subprocesses spawned so far by this call
    dataOutput,     \* what the subprocess wrote to stdout, a string
    errorOutput,    \* what the subprocess wrote to stderr, a string
    killed,         \* leoProcess.kill() was called
    exitCode        \* the code the last subprocess closed with

leoVars == <<leoPc, leoAttempt, dataOutput, errorOutput, killed, exitCode>>

VARIABLES
    \* ---- the PQueue of leoExecutor.ts and the submissions handed to it ----
    concurrency,    \* queueConfig.concurrency
    tasks,          \* per submission: its position and its attempts
    waiting         \* the submissions waiting in the queue, oldest first

queueVars == <<concurrency, tasks, waiting>>

cliVars == <<leoVars, queueVars>>

VARIABLES
    \* ---- POST /set-sgx-data-all over handlePriceUpdateCron ----
    batchPc,        \* "off", "idle", "handle", "setSgxData" or "responded"
    batchIndex,     \* position of the loop of the route in COIN_LIST
    results,        \* the results array of the request
    errors,         \* the errors array of the request
    batchResponse,  \* the body sent with res.json, if any
    coinStats,      \* this.stats: coin -> counters
    settled,        \* what setSgxData returned for the coins of the request
    batches         \* requests received so far

batchVars == <<batchPc, batchIndex, results, errors, batchResponse, coinStats,
               settled, batches>>

VARIABLES
    \* ---- the price logs as the write streams of the service fill them ----
    buffers,        \* stream -> the chunks written to it and not yet on disk
    disk,           \* coin -> the characters of the price log on disk
    issued          \* coin -> the records handed to trackCoinPrice, in order

logVars == <<buffers, disk, issued>>

VARIABLES
    \* ---- concurrent calls of getAttestationReport and the request object ----
    requestUrl,     \* oracleConfig.attestationRequest.url
    calls           \* the calls of getAttestationReport, in order

reqVars == <<requestUrl, calls>>

VARIABLES
    \* ---- the price the oracle program holds on chain ----
    onChain         \* per coin: the price of the last accepted submission

chainVars == <<onChain>>

vars == <<retryVars, attestVars, schedVars, evalVars, cliVars, batchVars,
          logVars, reqVars, chainVars>>

\* ------------------------------------------------------------------------
\* Bounds and program constants
\* ------------------------------------------------------------------------

\* Largest explicit retries value tried for a generic func.
MaxRetries == 2

\* retries = 5 (default parameter of retry)
DefaultRetries == 5

\* retry({ func, label, retries: 3 }) in executeLeo
LeoRetries == 3

\* retry({ func, label, retries: 1 }) in executeWithProvableDelegatedProving
DelegatedRetries == 1

\* status_code !== 200
StatusOk == 200

\* Status codes of a rejected broadcast.
RejectedStatuses == {400, 500}

Messages == {"m1", "m2"}

NoError == [class |-> "none", msg |-> "none"]

\* class BroadcastError extends Error
BroadcastError(m) == [class |-> "BroadcastError", msg |-> m]

\* new Error(m)
Error(m) == [class |-> "Error", msg |-> m]

Callers == {"generic", "executeLeo", "delegated"}

NoMsg == "none"

NoResult == "null"

\* The variables of a call that is not part of the specification at hand.
RetryOff ==
    /\ caller = "generic" /\ retries = 0 /\ broadcast = TRUE
    /\ retryPc = "off" /\ funcStep = "run"
    /\ attemptNumber = 0 /\ retriesConsumed = 0
    /\ thrown = <<>> /\ raised = <<>> /\ surfaced = NoError

AttestOff ==
    /\ notarizers = <<>> /\ shuffledNotarizers = <<>>
    /\ attestPc = "off" /\ selectedNotarizer = 0
    /\ success = FALSE /\ errorMsg = NoMsg /\ result = NoResult
    /\ attestThrown = NoMsg /\ requests = <<>> /\ caught = <<>>
    /\ notarizeResult = <<>>

Kinds == {"periodic", "deviation"}

\* oracleConfig.supportedCoins
COIN_LIST == <<"BTC", "ETH">>

Coins == {COIN_LIST[i] : i \in 1..Len(COIN_LIST)}

\* A job is a (job-kind, coin) pair.
Jobs == Kinds \X Coins

\* deviationBasedPriceUpdateCronConfig.tokens[coin].deviation
DeviationThreshold == 5

\* The configuration of the scheduler specification: both jobs of BTC are
\* enabled, both jobs of ETH are not; every schedule is a valid expression.
DefaultConfig ==
    [enabled   |-> [j \in Jobs |-> j[2] = "BTC"],
     valid     |-> [j \in Jobs |-> TRUE],
     deviation |-> [c \in Coins |-> DeviationThreshold],
     delegated |-> FALSE,
     credentials |-> FALSE]

\* The service as its constructor leaves it.
Constructed ==
    /\ isInitialized = FALSE
    /\ files = <<>>
    /\ cronJob = [j \in Jobs |-> FALSE]
    /\ activeTimers = [j \in Jobs |-> 0]
    /\ stats = [j \in Jobs |-> 0]
    /\ heap = [j \in Jobs |-> <<>>]
    /\ runs = <<>>
    /\ restarted = {}
    /\ retrievals = [c \in Coins |-> 0]
    /\ cronError = FALSE

SchedOff ==
    /\ Constructed
    /\ config = DefaultConfig

\* No subprocess has been spawned.
LeoOff ==
    /\ leoPc = "off" /\ leoAttempt = 0
    /\ dataOutput = <<>> /\ errorOutput = <<>>
    /\ killed = FALSE /\ exitCode = "none"

\* const queue = new PQueue({ concurrency: queueConfig.concurrency }), with
\* the default of config/default.json; nothing has been added to it.
DefaultConcurrency == 1

QueueOff ==
    /\ concurrency = DefaultConcurrency
    /\ tasks = <<>>
    /\ waiting = <<>>

CliOff == LeoOff /\ QueueOff

\* No submission has been accepted.
ChainOff == onChain = <<>>

\* No attestation request has been built.
ReqOff == requestUrl = "none" /\ calls = <<>>

\* No write stream has been written to.
LogOff == buffers = <<>> /\ disk = <<>> /\ issued = <<>>

\* No request of /set-sgx-data-all has been received.
BatchOff ==
    /\ batchPc = "off" /\ batchIndex = 0
    /\ results = <<>> /\ errors = <<>> /\ batchResponse = <<>>
    /\ coinStats = <<>> /\ settled = <<>> /\ batches = 0

EvalOff ==
    /\ evalPc = "off" /\ evalCoin = "BTC"
    /\ evalCurrent = 0 /\ evalLast = [price |-> 0]
    /\ evalResult = FALSE

\* ------------------------------------------------------------------------
\* retry (pRetry.ts) over p-retry's loop
\* ------------------------------------------------------------------------

\* The retries each caller passes.
RetriesOf(c) ==
    CASE c = "executeLeo" -> {LeoRetries}
      [] c = "delegated"  -> {DelegatedRetries}
      [] OTHER            -> (0..MaxRetries) \cup {DefaultRetries}

\* p-retry's context.retriesLeft = max(0, retries - retriesConsumed)
RetriesLeft(r, consumed) == IF r - consumed > 0 THEN r - consumed ELSE 0

\* A faulty shouldRetry that ignores the error's class.
shouldRetryAlways(error, retriesLeft) == retriesLeft > 0

\* shouldRetry: !(error instanceof BroadcastError) && retriesLeft > 0
shouldRetry(error, retriesLeft) ==
    error.class # "BroadcastError" /\ retriesLeft > 0

\* A faulty decision that ignores the retries that are left.
RetryDecisionUnbounded(error, r, consumed) == error.class # "BroadcastError"

\* pRetry(func, { retries, shouldRetry }): after a failed attempt p-retry
\* throws when no retry is left or shouldRetry says no, and otherwise
\* consumes a retry and invokes func again.
RetryDecision(error, r, consumed) ==
    LET left == RetriesLeft(r, consumed)
    IN left > 0 /\ shouldRetry(error, left)

\* The steps of func in executeWithProvableDelegatedProving, in order.
DelegatedSteps == <<"jwt", "pubkey", "provingRequest", "post">>

FirstStep(c) == IF c = "delegated" THEN DelegatedSteps[1] ELSE "run"

NextStep(s) ==
    CASE s = "jwt" -> "pubkey"
      [] s = "pubkey" -> "provingRequest"
      [] s = "provingRequest" -> "post"
      [] OTHER -> "post"

\* catch (error) { ... throw new Error(`[${label}] Delegated proving failed: ${message}`) }
DelegatedCatch(error) == Error(error.msg)

InitRetry ==
    /\ caller \in Callers
    /\ retries \in RetriesOf(caller)
    /\ broadcast \in (IF caller = "delegated" THEN BOOLEAN ELSE {TRUE})
    /\ retryPc = "func"
    /\ funcStep = FirstStep(caller)
    /\ attemptNumber = 1
    /\ retriesConsumed = 0
    /\ thrown = <<>>
    /\ raised = <<>>
    /\ surfaced = NoError
    /\ AttestOff
    /\ SchedOff
    /\ EvalOff
    /\ CliOff
    /\ BatchOff
    /\ LogOff
    /\ ReqOff
    /\ ChainOff

\* func rejects with error e: pRetry catches it and awaits onFailedAttempt
\* (the 2 ** attemptNumber seconds delay).
Reject(inner, e) ==
    /\ retryPc' = "onFailedAttempt"
    /\ thrown' = Append(thrown, e)
    /\ raised' = Append(raised, inner)
    /\ UNCHANGED <<caller, retries, broadcast, funcStep, attemptNumber,
                   retriesConsumed, surfaced>>
    /\ UNCHANGED <<attestVars, schedVars, evalVars, cliVars, batchVars, logVars, reqVars, chainVars>>

Resolve ==
    /\ retryPc' = "resolved"
    /\ UNCHANGED <<caller, retries, broadcast, funcStep, attemptNumber,
                   retriesConsumed, thrown, raised, surfaced>>
    /\ UNCHANGED <<attestVars, schedVars, evalVars, cliVars, batchVars, logVars, reqVars, chainVars>>

\* A generic func settles: it resolves, or rejects with any error.
GenericFuncSettles ==
    /\ retryPc = "func" /\ caller = "generic"
    /\ \/ Resolve
       \/ \E m \in Messages : Reject(Error(m), Error(m))
       \/ \E m \in Messages : Reject(BroadcastError(m), BroadcastError(m))

\* executeLeo's func: the promise settles in the close handler.
LeoFuncSettles ==
    /\ retryPc = "func" /\ caller = "executeLeo"
    /\ \/ Resolve
       \/ \E m \in Messages : Reject(Error(m), Error(m))

\* getProvableJwt, getProverPubKey, programManager.provingRequest succeed.
DelegatedStepOk ==
    /\ retryPc = "func" /\ caller = "delegated"
    /\ funcStep \in {"jwt", "pubkey", "provingRequest"}
    /\ funcStep' = NextStep(funcStep)
    /\ UNCHANGED <<caller, retries, broadcast, retryPc, attemptNumber,
                   retriesConsumed, thrown, raised, surfaced>>
    /\ UNCHANGED <<attestVars, schedVars, evalVars, cliVars, batchVars, logVars, reqVars, chainVars>>

\* Any step of the protocol throws (HTTP failure, !res.ok, build failure).
DelegatedStepThrows ==
    /\ retryPc = "func" /\ caller = "delegated"
    /\ \E m \in Messages : Reject(Error(m), DelegatedCatch(Error(m)))

\* sendEncryptedProvingRequest returned a body; the broadcast result is read.
DelegatedPostReturns ==
    /\ retryPc = "func" /\ caller = "delegated" /\ funcStep = "post"
    /\ \E status \in {StatusOk} \cup RejectedStatuses :
          IF broadcast /\ status # StatusOk
          THEN \E m \in Messages :
                  Reject(BroadcastError(m), DelegatedCatch(BroadcastError(m)))
          ELSE Resolve

\* onFailedAttempt's delay is over: pRetry throws or runs func again.
AfterFailedAttempt ==
    /\ retryPc = "onFailedAttempt"
    /\ LET error == thrown[Len(thrown)]
       IN IF ~RetryDecision(error, retries, retriesConsumed)
          THEN /\ retryPc' = "rejected"
               /\ surfaced' = error
               /\ UNCHANGED <<funcStep, attemptNumber, retriesConsumed>>
          ELSE /\ retryPc' = "func"
               /\ retriesConsumed' = retriesConsumed + 1
               /\ attemptNumber' = attemptNumber + 1
               /\ funcStep' = FirstStep(caller)
               /\ UNCHANGED surfaced
    /\ UNCHANGED <<caller, retries, broadcast, thrown, raised>>
    /\ UNCHANGED <<attestVars, schedVars, evalVars, cliVars, batchVars, logVars, reqVars, chainVars>>

NextRetry ==
    \/ GenericFuncSettles
    \/ LeoFuncSettles
    \/ DelegatedStepOk
    \/ DelegatedStepThrows
    \/ DelegatedPostReturns
    \/ AfterFailedAttempt

SpecRetry == InitRetry /\ [][NextRetry]_vars

\* ------------------------------------------------------------------------
\* Properties of retry (checked under SpecRetry)
\* ------------------------------------------------------------------------

\* Attempt i failed and raised a BroadcastError inside func.
BroadcastRaisedAt(i) == i \in 1..Len(raised) /\ raised[i].class = "BroadcastError"

\* C5: with broadcast configured, a prover broadcast result whose status
\* code is not 200 makes the delegated submission fail with a BroadcastError
\* and the proving protocol is run exactly once: no attempt follows the
\* rejected one.
C5_BroadcastRejectionNotRetried ==
    (caller = "delegated" /\ broadcast) =>
        \A i \in 1..Len(raised) :
            BroadcastRaisedAt(i) =>
                /\ attemptNumber = i
                /\ retryPc = "rejected" => surfaced.class = "BroadcastError"

NoAttemptAfterSuccess ==
    attemptNumber = Len(thrown) + (IF retryPc \in {"func", "resolved"} THEN 1 ELSE 0)

AllRetriable == \A i \in 1..Len(thrown) : thrown[i].class # "BroadcastError"

\* C7 as stated: func is invoked at most N times, N the configured ceiling
\* (5 by default, 3 for the CLI, 1 for delegated proving); N retriable
\* failures surface the last error; no invocation follows a success.
C7_AtMostCeilingInvocations ==
    retries >= 1 =>
        /\ attemptNumber <= retries
        /\ (retryPc = "rejected" /\ AllRetriable) =>
               (attemptNumber = retries /\ surfaced = thrown[Len(thrown)])
        /\ NoAttemptAfterSuccess

\* C7 amended: func is invoked at most N + 1 times (one first attempt and
\* at most N retries), N the configured retries value; when N + 1 attempts
\* fail with retriable errors the last error is surfaced; no invocation
\* follows a success.
C7_AtMostRetriesPlusOne ==
    /\ attemptNumber <= retries + 1
    /\ (retryPc = "rejected" /\ AllRetriable) =>
           (attemptNumber = retries + 1 /\ surfaced = thrown[Len(thrown)])
    /\ NoAttemptAfterSuccess

\* C7 witness: the CLI submission failed on every attempt with different
\* errors: func ran 3 + 1 times and the last error was surfaced.
C7_Witness ==
    /\ caller = "executeLeo"
    /\ retryPc = "rejected"
    /\ attemptNumber = LeoRetries + 1
    /\ thrown[1] # thrown[Len(thrown)]
    /\ surfaced = thrown[Len(thrown)]

\* ------------------------------------------------------------------------
\* OracleService.getAttestationReport: randomized notarizer failover
\* ------------------------------------------------------------------------

\* Largest configured notarizer list.
NumNotarizers == 3

\* Longest list a notarizer returns.
MaxResultLen == 2

AttestationResponses == {"a1", "a2"}

\* `No notarization result received for ${coinName}`
NoNotarizationMsg == "No notarization result received"

\* `No attestation report received for ${coinName}`
NoReportMsg == "No attestation report received"

\* What oracleClient.notarize can resolve to: an empty list (or nothing), or
\* a list of attestation responses.
NotarizeResults ==
    UNION { [1..n -> AttestationResponses] : n \in 0..MaxResultLen }

\* [shuffled[i], shuffled[j]] = [shuffled[j], shuffled[i]]
Swap(s, i, j) == [s EXCEPT ![i] = s[j], ![j] = s[i]]

\* The Fisher-Yates loop from position i down (positions counted from 1):
\* every list the random choices of j can produce.
RECURSIVE FisherYates(_, _)
FisherYates(s, i) ==
    IF i <= 1 THEN {s}
    ELSE UNION { FisherYates(Swap(s, i, j), i - 1) : j \in 1..i }

shuffleNotarizers(list) == FisherYates(list, Len(list))

\* A faulty splice that leaves the picked notarizer in the list.
spliceNothing(s, i) == s

\* shuffledNotarizers.splice(randomlySelectedIndex, 1)
splice(s, i) == [k \in 1..(Len(s) - 1) |-> IF k < i THEN s[k] ELSE s[k + 1]]

\* A faulty loop condition that ignores success.
LoopContinuesAfterSuccess(s, succ) == Len(s) > 0

\* while (shuffledNotarizers.length > 0 && !success), left by break on success
LoopContinues(s, succ) == Len(s) > 0 /\ ~succ

\* The loop head up to the next await: a random pick is spliced out and
\* asked, or the loop is over and the call returns or throws.
AttestLoop(s, succ, res, reqs) ==
    IF LoopContinues(s, succ)
    THEN \E i \in 1..Len(s) :
            /\ selectedNotarizer' = s[i]
            /\ shuffledNotarizers' = splice(s, i)
            /\ requests' = Append(reqs, s[i])
            /\ attestPc' = "notarize"
            /\ attestThrown' = NoMsg
    ELSE /\ shuffledNotarizers' = s
         /\ selectedNotarizer' = selectedNotarizer
         /\ requests' = reqs
         /\ attestPc' = IF res = NoResult THEN "threw" ELSE "returned"
         /\ attestThrown' = IF res = NoResult THEN NoReportMsg ELSE NoMsg

\* getAttestationReport is entered: the list is shuffled and the first
\* notarizer is asked.
InitAttest ==
    /\ RetryOff
    /\ SchedOff
    /\ EvalOff
    /\ CliOff
    /\ BatchOff
    /\ LogOff
    /\ ReqOff
    /\ ChainOff
    /\ \E n \in 0..NumNotarizers : notarizers = [k \in 1..n |-> k]
    /\ success = FALSE /\ errorMsg = NoMsg /\ result = NoResult
    /\ caught = <<>> /\ notarizeResult = <<>>
    /\ \E s \in shuffleNotarizers(notarizers) :
         IF Len(s) > 0
         THEN \E i \in 1..Len(s) :
                 /\ selectedNotarizer = s[i]
                 /\ shuffledNotarizers = splice(s, i)
                 /\ requests = <<s[i]>>
                 /\ attestPc = "notarize"
                 /\ attestThrown = NoMsg
         ELSE /\ selectedNotarizer = 0
              /\ shuffledNotarizers = s
              /\ requests = <<>>
              /\ attestPc = "threw"
              /\ attestThrown = NoReportMsg

\* oracleClient.notarize rejects: the catch logs it and the loop goes on.
NotarizeThrows ==
    /\ attestPc = "notarize"
    /\ \E m \in Messages :
          /\ caught' = Append(caught, m)
          /\ success' = FALSE
          /\ AttestLoop(shuffledNotarizers, FALSE, result, requests)
    /\ UNCHANGED <<notarizers, errorMsg, result, notarizeResult>>
    /\ UNCHANGED <<retryVars, schedVars, evalVars, cliVars, batchVars, logVars, reqVars, chainVars>>

\* oracleClient.notarize resolves: an empty result is thrown to the catch,
\* a non-empty one ends the loop with its first element.
NotarizeReturns ==
    /\ attestPc = "notarize"
    /\ \E r \in NotarizeResults :
          /\ notarizeResult' = r
          /\ IF Len(r) = 0
             THEN /\ errorMsg' = NoNotarizationMsg
                  /\ caught' = Append(caught, NoNotarizationMsg)
                  /\ success' = FALSE
                  /\ result' = result
                  /\ AttestLoop(shuffledNotarizers, FALSE, result, requests)
             ELSE /\ success' = TRUE
                  /\ result' = r[1]
                  /\ UNCHANGED <<errorMsg, caught>>
                  /\ AttestLoop(shuffledNotarizers, TRUE, r[1], requests)
    /\ UNCHANGED notarizers
    /\ UNCHANGED <<retryVars, schedVars, evalVars, cliVars, batchVars, logVars, reqVars, chainVars>>

NextAttest ==
    \/ NotarizeThrows
    \/ NotarizeReturns

SpecAttest == InitAttest /\ [][NextAttest]_vars

\* ------------------------------------------------------------------------
\* Properties of getAttestationReport (checked under SpecAttest)
\* ------------------------------------------------------------------------

\* How many requests were issued to notarizer n.
RequestsTo(n) == Cardinality({i \in 1..Len(requests) : requests[i] = n})

\* C2: for a non-empty notarizer list, one call issues at most one request
\* to each configured notarizer, so at most as many requests as there are
\* notarizers, whatever is picked and whichever notarizers fail.
C2_EachNotarizerAtMostOnce ==
    Len(notarizers) > 0 =>
        /\ \A n \in 1..Len(notarizers) : RequestsTo(n) <= 1
        /\ Len(requests) <= Len(notarizers)
        /\ \A i \in 1..Len(requests) : requests[i] \in 1..Len(notarizers)

\* C2 witness: all three notarizers failed, each asked once, in an order
\* that is not the configured one.
C2_Witness ==
    /\ attestPc = "threw"
    /\ Len(notarizers) = 3
    /\ Len(requests) = 3
    /\ requests # notarizers

\* C3: once a notarizer returned a non-empty result the call has returned:
\* no request is in flight or issued later, and the value returned is the
\* first element of that notarizer's result.
C3_FirstSuccessWins ==
    success =>
        /\ attestPc = "returned"
        /\ Len(notarizeResult) > 0
        /\ result = notarizeResult[1]
        /\ selectedNotarizer = requests[Len(requests)]

\* C3 witness: after one failover the second notarizer returned two
\* different responses while a third notarizer was still untried.
C3_Witness ==
    /\ attestPc = "returned"
    /\ Len(requests) = 2
    /\ Len(shuffledNotarizers) = 1
    /\ Len(notarizeResult) = 2
    /\ notarizeResult[1] # notarizeResult[2]
    /\ result = notarizeResult[1]

\* C4: when every configured notarizer was tried without success the call
\* fails with the message of the last notarizer error recorded.
C4_FailsWithLastRecordedError ==
    (attestPc = "threw" /\ Len(notarizers) > 0) =>
        /\ Len(requests) = Len(notarizers)
        /\ attestThrown = caught[Len(caught)]

\* ------------------------------------------------------------------------
\* OracleService: cron jobs (Start, Stop, ticks) and job executions
\* ------------------------------------------------------------------------

\* Executions begun in one behaviour.
MaxRuns == 2

\* CoinStats objects allocated in one behaviour, over all jobs.
MaxAlloc == 4

\* CronJob objects of one job running at once.
MaxTimers == 2

\* Lines appended to one price file.
MaxLines == 1

Prices == {100, 105}

Null == "null"

\* A transaction id matching at[0-9a-z]{50,}
TxnId == "at1"

\* (error as Error).message of the TypeError of reading .price of null
NullDerefMsg == "Cannot read properties of null"

\* `Transaction ID not found in leo output for ${coinName} ...`
TxNotFoundMsg == "Transaction ID not found in leo output"

\* The message of an error delegateAleoTransaction rejects with.
SubmitFailedMsg == "submission failed"

\* <kind>PriceUpdateCronConfig.tokens[coin]?.enabled
CronEnabled(j) == config.enabled[j]

\* coinName.toLowerCase()
toLowerCase == [c \in Coins |-> IF c = "BTC" THEN "btc" ELSE "eth"]

\* `${pricesDir}/${coin.toLowerCase()}_price.txt`, pricesDir = './prices'
PriceFilePath(coin) == <<"./prices", "/", toLowerCase[coin], "_price.txt">>

\* `./ prices / ${coinName.toLowerCase()} _price.txt`
TrackedPricePath(coin) == <<"./ prices / ", toLowerCase[coin], " _price.txt">>

\* createWriteStream(filePath, { flags: 'a' }) for every coin of COIN_LIST
CreatePriceFiles(fs) ==
    LET new == {PriceFilePath(c) : c \in Coins}
    IN [p \in (DOMAIN fs) \cup new |-> IF p \in DOMAIN fs THEN fs[p] ELSE <<>>]

\* trackCoinPrice: coinPriceStream[coinName].write(`${timestamp} ${price}\n`)
\* (a line is modelled by its price)
trackCoinPrice(fs, coin, price) ==
    [fs EXCEPT ![PriceFilePath(coin)] = Append(@, price)]

\* getLastTrackedPrice: null when the file does not exist or is empty, else
\* the price of its last line.
getLastTrackedPrice(fs, coin) ==
    LET filePath == TrackedPricePath(coin)
    IN IF filePath \notin DOMAIN fs THEN Null
       ELSE IF Len(fs[filePath]) = 0 THEN Null
       ELSE [price |-> fs[filePath][Len(fs[filePath])]]

Abs(x) == IF x < 0 THEN -x ELSE x

\* deviationBasedPriceUpdateCronConfig.tokens[coinName]?.deviation || 0
deviationThreshold(coin) == config.deviation[coin]

\* checkTokenPriceDeviation with a strict comparison in place of >=.
checkTokenPriceDeviationStrict(coin, currentPrice, lastPriceData) ==
    IF lastPriceData.price = 0
    THEN currentPrice # 0
    ELSE Abs(currentPrice - lastPriceData.price) * 100
             > deviationThreshold(coin) * lastPriceData.price

\* checkTokenPriceDeviation: (|current - last| / last) * 100 >= threshold.
\* Dividing by a last price of 0 gives Infinity (true) or, for 0 / 0, NaN
\* (false).
checkTokenPriceDeviation(coin, currentPrice, lastPriceData) ==
    IF lastPriceData.price = 0
    THEN currentPrice # 0
    ELSE Abs(currentPrice - lastPriceData.price) * 100
             >= deviationThreshold(coin) * lastPriceData.price

\* A fresh CoinStats object.
NewStats == [totalRuns |-> 0, successfulRuns |-> 0, failedRuns |-> 0]

\* The coins of a call that is applied to every coin whatever coinName is.
TargetsAll(coinName) == Coins

\* coinName ? [coinName] : COIN_LIST
Targets(coinName) == IF coinName = Null THEN Coins ELSE {coinName}

\* The maps of the service, as one value the cron methods transform.
Maps ==
    [cronJob |-> cronJob, activeTimers |-> activeTimers, stats |-> stats,
     heap |-> heap, thrown |-> FALSE]

SetMaps(m) ==
    /\ cronJob' = m.cronJob
    /\ activeTimers' = m.activeTimers
    /\ stats' = m.stats
    /\ heap' = m.heap
    /\ cronError' = m.thrown

RECURSIVE Allocated(_, _)
Allocated(h, js) ==
    IF js = {} THEN 0
    ELSE LET j == CHOOSE x \in js : TRUE
         IN Len(h[j]) + Allocated(h, js \ {j})

WithinBounds(m) ==
    /\ Allocated(m.heap, Jobs) <= MaxAlloc
    /\ \A j \in Jobs : m.activeTimers[j] <= MaxTimers

\* A faulty test that never finds a job running.
AlreadyRunningIgnored(m, j) == FALSE

\* if (this.<kind>PriceUpdateCronJob[coin]) { ...already running; continue }
AlreadyRunning(m, j) == m.cronJob[j]

\* The position of a coin in COIN_LIST.
IndexOf(coin) == CHOOSE i \in 1..Len(COIN_LIST) : COIN_LIST[i] = coin

\* validateCronExpression returns an object { valid, error? }, so
\* `!validateCronExpression(cronSchedule)` is false for every schedule: a
\* coin is never skipped for its schedule.
RejectsSchedule(j) == FALSE

\* CronJob.from({ cronTime, ... }) throws for a cronTime that is not a cron
\* expression: the jobs of kind among the targeted coins that reach it with
\* such a schedule.
Throwers(m, kind, coinName) ==
    {j \in Jobs : /\ j[1] = kind /\ j[2] \in Targets(coinName)
                  /\ ~AlreadyRunning(m, j)
                  /\ CronEnabled(j) /\ ~RejectsSchedule(j)
                  /\ ~config.valid[j]}

\* The jobs the loop `for (const coin of coins)` reaches: every targeted
\* coin up to and including the first one for which CronJob.from throws,
\* without those skipped as running or for their schedule.
Reached(m, kind, coinName) ==
    LET throwers == Throwers(m, kind, coinName)
    IN {j \in Jobs : /\ j[1] = kind /\ j[2] \in Targets(coinName)
                     /\ ~AlreadyRunning(m, j)
                     /\ ~(CronEnabled(j) /\ RejectsSchedule(j))
                     /\ \A t \in throwers : IndexOf(j[2]) <= IndexOf(t[2])}

\* startPeriodicPriceUpdateCron: every coin reached gets a fresh stats
\* object; a CronJob is created and started when enabled.
startPeriodicPriceUpdateCron(m, coinName) ==
    LET go    == Reached(m, "periodic", coinName)
        timed == {j \in go : CronEnabled(j) /\ config.valid[j]}
    IN [cronJob      |-> [j \in Jobs |-> IF j \in timed THEN TRUE ELSE m.cronJob[j]],
        activeTimers |-> [j \in Jobs |-> IF j \in timed THEN m.activeTimers[j] + 1
                                         ELSE m.activeTimers[j]],
        stats        |-> [j \in Jobs |-> IF j \in go THEN Len(m.heap[j]) + 1
                                         ELSE m.stats[j]],
        heap         |-> [j \in Jobs |-> IF j \in go THEN Append(m.heap[j], NewStats)
                                         ELSE m.heap[j]],
        thrown       |-> Throwers(m, "periodic", coinName) # {}]

\* startDeviationBasedPriceUpdateCron: only an enabled coin that is reached
\* is touched; its stats object is allocated when absent, then its CronJob
\* is created and started.
startDeviationBasedPriceUpdateCron(m, coinName) ==
    LET go    == {j \in Reached(m, "deviation", coinName) : CronEnabled(j)}
        fresh == {j \in go : m.stats[j] = 0}
        timed == {j \in go : config.valid[j]}
    IN [cronJob      |-> [j \in Jobs |-> IF j \in timed THEN TRUE ELSE m.cronJob[j]],
        activeTimers |-> [j \in Jobs |-> IF j \in timed THEN m.activeTimers[j] + 1
                                         ELSE m.activeTimers[j]],
        stats        |-> [j \in Jobs |-> IF j \in fresh THEN Len(m.heap[j]) + 1
                                         ELSE m.stats[j]],
        heap         |-> [j \in Jobs |-> IF j \in fresh THEN Append(m.heap[j], NewStats)
                                         ELSE m.heap[j]],
        thrown       |-> Throwers(m, "deviation", coinName) # {}]

\* stop<Kind>PriceUpdateCron without the call of stop() of the CronJob.
stopPriceUpdateCronKeepsTimer(m, kind, coinName) ==
    LET aimed == {j \in Jobs : j[1] = kind /\ j[2] \in Targets(coinName)}
        go    == {j \in aimed : m.cronJob[j]}
    IN [cronJob      |-> [j \in Jobs |-> IF j \in go THEN FALSE ELSE m.cronJob[j]],
        activeTimers |-> m.activeTimers,
        stats        |-> [j \in Jobs |-> IF j \in go THEN 0 ELSE m.stats[j]],
        heap         |-> m.heap,
        thrown       |-> m.thrown]

\* stop<Kind>PriceUpdateCron: a set CronJob is stopped, and the job's CronJob
\* and stats entries are set to null.
stopPriceUpdateCron(m, kind, coinName) ==
    LET aimed == {j \in Jobs : j[1] = kind /\ j[2] \in Targets(coinName)}
        go    == {j \in aimed : m.cronJob[j]}
    IN [cronJob      |-> [j \in Jobs |-> IF j \in go THEN FALSE ELSE m.cronJob[j]],
        activeTimers |-> [j \in Jobs |-> IF j \in go THEN m.activeTimers[j] - 1
                                         ELSE m.activeTimers[j]],
        stats        |-> [j \in Jobs |-> IF j \in go THEN 0 ELSE m.stats[j]],
        heap         |-> m.heap,
        thrown       |-> m.thrown]

\* startCronJob: periodic, then (unless that threw) deviation
startCronJob(m, coinName) ==
    LET p == startPeriodicPriceUpdateCron(m, coinName)
    IN IF p.thrown THEN p ELSE startDeviationBasedPriceUpdateCron(p, coinName)

\* stopCronJob: periodic, then deviation
stopCronJob(m, coinName) ==
    stopPriceUpdateCron(stopPriceUpdateCron(m, "periodic", coinName), "deviation", coinName)

\* The jobs a call of the cron method op is aimed at.
Aimed(op, coinName) ==
    {j \in Jobs : /\ j[2] \in Targets(coinName)
                  /\ \/ op \in {"startCronJob", "stopCronJob"}
                     \/ op \in {"startPeriodic", "stopPeriodic"} /\ j[1] = "periodic"
                     \/ op \in {"startDeviation", "stopDeviation"} /\ j[1] = "deviation"}

\* A Start call adds the started jobs it is aimed at, a Stop call removes the
\* jobs it is aimed at.
Restarted(op, coinName) ==
    IF op \in {"startCronJob", "startPeriodic", "startDeviation"}
    THEN restarted \cup {j \in Aimed(op, coinName) : cronJob[j]}
    ELSE restarted \ Aimed(op, coinName)

\* The state after the constructor.
Init ==
    /\ RetryOff
    /\ AttestOff
    /\ SchedOff
    /\ EvalOff
    /\ CliOff
    /\ BatchOff
    /\ LogOff
    /\ ReqOff
    /\ ChainOff

\* initialize(): the price files are opened, isInitialized is set and
\* startCronJob() is called; what it throws is logged and thrown again.
Initialize ==
    /\ ~isInitialized
    /\ isInitialized' = TRUE
    /\ files' = CreatePriceFiles(files)
    /\ SetMaps(startCronJob(Maps, Null))
    /\ restarted' = Restarted("startCronJob", Null)
    /\ UNCHANGED runs
    /\ UNCHANGED <<retryVars, attestVars, evalVars, cliVars, batchVars, logVars, reqVars, chainVars, config, retrievals>>

\* A call of one of the service's cron methods with result maps m.
CronCall(op, coinName, m) ==
    /\ isInitialized
    /\ WithinBounds(m)
    /\ SetMaps(m)
    /\ restarted' = Restarted(op, coinName)
    /\ UNCHANGED <<isInitialized, files, runs>>
    /\ UNCHANGED <<retryVars, attestVars, evalVars, cliVars, batchVars, logVars, reqVars, chainVars, config, retrievals>>

StartPeriodic ==
    \E coinName \in Coins \cup {Null} :
        CronCall("startPeriodic", coinName, startPeriodicPriceUpdateCron(Maps, coinName))

StartDeviation ==
    \E coinName \in Coins \cup {Null} :
        CronCall("startDeviation", coinName,
                 startDeviationBasedPriceUpdateCron(Maps, coinName))

StartCronJob ==
    \E coinName \in Coins \cup {Null} :
        CronCall("startCronJob", coinName, startCronJob(Maps, coinName))

StopPeriodic ==
    \E coinName \in Coins \cup {Null} :
        CronCall("stopPeriodic", coinName,
                 stopPriceUpdateCron(Maps, "periodic", coinName))

StopDeviation ==
    \E coinName \in Coins \cup {Null} :
        CronCall("stopDeviation", coinName,
                 stopPriceUpdateCron(Maps, "deviation", coinName))

StopCronJob ==
    \E coinName \in Coins \cup {Null} :
        CronCall("stopCronJob", coinName, stopCronJob(Maps, coinName))

\* The outcomes of delegateAleoTransaction: output that holds a transaction
\* id, output that holds none, or a rejection.
DelegateOutcomes == {"txn", "noTxn", "throws"}

\* executeWithProvableDelegatedProving: throws when delegated proving is not
\* enabled or when the API key or the consumer id is missing; else the
\* outcomes of the protocol with the prover.
executeWithProvableDelegatedProving ==
    IF ~config.delegated \/ ~config.credentials THEN {"throws"}
    ELSE DelegateOutcomes

\* delegateAleoTransaction: the submission goes to the backend the
\* configuration selects.
delegateAleoTransaction ==
    IF config.delegated THEN executeWithProvableDelegatedProving
    ELSE DelegateOutcomes

\* extractTransactionId: the id matched in the output, else null
extractTransactionId(leoResult) == IF leoResult = "txn" THEN TxnId ELSE Null

\* handle<Kind>PriceUpdateCron up to its first await: the job's stats object
\* is created when absent, captured (const stats = ...) and its totalRuns
\* incremented. A periodic run then awaits the started alert; a deviation
\* run reads the last tracked price and, with or without one, calls
\* setSgxData({ coinName, checkDeviation: true }).
BeginRun(kind, coin) ==
    LET j   == <<kind, coin>>
        h   == IF stats[j] = 0 THEN Append(heap[j], NewStats) ELSE heap[j]
        ref == IF stats[j] = 0 THEN Len(heap[j]) + 1 ELSE stats[j]
    IN /\ isInitialized
       /\ Len(runs) < MaxRuns
       /\ Allocated([heap EXCEPT ![j] = h], Jobs) <= MaxAlloc
       /\ stats' = [stats EXCEPT ![j] = ref]
       /\ heap' = [heap EXCEPT ![j] = [h EXCEPT ![ref].totalRuns = @ + 1]]
       /\ runs' = Append(runs, [kind |-> kind, coin |-> coin, stats |-> ref,
                                pc |-> IF kind = "periodic" THEN "alert" ELSE "attest",
                                errorMsg |-> NoMsg, txnId |-> Null,
                                attested |-> 0, inputs |-> <<>>])
       /\ UNCHANGED <<isInitialized, files, cronJob, activeTimers, restarted>>
       /\ UNCHANGED <<retryVars, attestVars, evalVars, cliVars, batchVars, logVars, reqVars, chainVars, config, retrievals, cronError>>

\* onTick of a started CronJob
Tick ==
    \E j \in Jobs : activeTimers[j] > 0 /\ BeginRun(j[1], j[2])

\* A manual one-off trigger: handle<Kind>PriceUpdateCron called directly,
\* whether or not the job is started.
ManualTrigger ==
    \E j \in Jobs : BeginRun(j[1], j[2])

\* result.oracleData of the n-th report getAttestationReport returned for a
\* coin: each field is named by the report it belongs to.
OracleData(coin, n) ==
    [report    |-> <<"report", coin, n>>,
     userData  |-> <<"userData", coin, n>>,
     signature |-> <<"signature", coin, n>>,
     address   |-> <<"address", coin, n>>,
     requestHash |-> <<"requestHash", coin, n>>]

\* The inputs of the submission with the report in the first place.
ProofInputsReportFirst(oracleData) ==
    <<oracleData.report, oracleData.userData, oracleData.signature,
      oracleData.address>>

\* inputs: [userData, report, signature, address]
ProofInputs(oracleData) ==
    <<oracleData.userData, oracleData.report, oracleData.signature,
      oracleData.address>>

\* shouldUpdatePrice of setSgxData with the evaluator asked whatever
\* checkDeviation is.
shouldUpdatePriceConditional(checkDeviation, coin, price, last) ==
    last # Null /\ checkTokenPriceDeviation(coin, price, last)

\* let shouldUpdatePrice = true; if (checkDeviation) { shouldUpdatePrice =
\* this.checkTokenPriceDeviation(coinName, price, lastPriceData) }
shouldUpdatePrice(checkDeviation, coin, price, last) ==
    IF checkDeviation THEN checkTokenPriceDeviation(coin, price, last)
    ELSE TRUE

\* The inner catch of setSgxData: the first message is kept, success is
\* false, and the while loop calls getAttestationReport again.
Catch(run, message) ==
    [run EXCEPT !.errorMsg = IF @ = NoMsg THEN message ELSE @,
                !.pc = "attest", !.attested = 0, !.inputs = <<>>]

\* The handler after setSgxData returned: successfulRuns of the captured
\* stats object is incremented (failedRuns when errorCount is not 0).
RecordRun(h, run, errorCount) ==
    [h EXCEPT ![<<run.kind, run.coin>>][run.stats] =
        IF errorCount = 0 THEN [@ EXCEPT !.successfulRuns = @ + 1]
        ELSE [@ EXCEPT !.failedRuns = @ + 1]]

\* await discordNotifier.sendCronJobAlert(..., 'started') settles
CronJobAlertSent ==
    \E i \in 1..Len(runs) :
        /\ runs[i].pc = "alert"
        /\ runs' = [runs EXCEPT ![i].pc = "attest"]
        /\ UNCHANGED <<isInitialized, files, cronJob, activeTimers, stats, heap, restarted>>
        /\ UNCHANGED <<retryVars, attestVars, evalVars, cliVars, batchVars, logVars, reqVars, chainVars, config, retrievals, cronError>>

\* await this.getAttestationReport(coinName) rejects
AttestationThrows ==
    \E i \in 1..Len(runs) :
        /\ runs[i].pc = "attest"
        /\ runs' = [runs EXCEPT ![i] = Catch(@, NoReportMsg)]
        /\ UNCHANGED <<isInitialized, files, cronJob, activeTimers, stats, heap, restarted>>
        /\ UNCHANGED <<retryVars, attestVars, evalVars, cliVars, batchVars, logVars, reqVars, chainVars, config, retrievals, cronError>>

\* await this.getAttestationReport(coinName) resolves: the price is tracked,
\* the deviation is checked when asked for, and either the run ends without
\* an update or the transaction is delegated.
\* (the log of a coin is followed up to maxLines lines)
AttestationReturnsWithin(maxLines) ==
    \E i \in 1..Len(runs), price \in Prices :
        LET run  == runs[i]
            last == getLastTrackedPrice(files', run.coin)
        IN /\ run.pc = "attest"
           /\ Len(files[PriceFilePath(run.coin)]) < maxLines
           /\ retrievals' = [retrievals EXCEPT ![run.coin] = @ + 1]
           /\ files' = trackCoinPrice(files, run.coin, price)
           /\ IF run.kind = "deviation" /\ last = Null
              THEN /\ runs' = [runs EXCEPT ![i] = Catch(@, NullDerefMsg)]
                   /\ heap' = heap
              ELSE IF ~shouldUpdatePrice(run.kind = "deviation", run.coin,
                                         price, last)
              THEN /\ runs' = [runs EXCEPT ![i].pc = "done",
                                           ![i].attested = retrievals'[run.coin]]
                   /\ heap' = RecordRun(heap, run, 0)
              ELSE /\ runs' = [runs EXCEPT
                                  ![i].pc = "delegate",
                                  ![i].attested = retrievals'[run.coin],
                                  ![i].inputs =
                                      ProofInputs(OracleData(run.coin,
                                                    retrievals'[run.coin]))]
                   /\ heap' = heap
           /\ UNCHANGED <<isInitialized, cronJob, activeTimers, stats, restarted>>
           /\ UNCHANGED <<retryVars, attestVars, evalVars, cliVars, batchVars, logVars, reqVars, chainVars, config, cronError>>

AttestationReturns == AttestationReturnsWithin(MaxLines)

\* await delegateAleoTransaction(...) settles: with a transaction id the
\* run returns and is counted; without one, or on a rejection, the inner
\* catch takes over.
DelegateSettlesWith(i, leoResult) ==
    LET run           == runs[i]
        transactionId == extractTransactionId(leoResult)
    IN /\ run.pc = "delegate"
       /\ IF leoResult = "throws"
          THEN /\ runs' = [runs EXCEPT ![i] = Catch(@, SubmitFailedMsg)]
               /\ heap' = heap
          ELSE IF transactionId # Null
          THEN /\ runs' = [runs EXCEPT ![i].pc = "done",
                                       ![i].txnId = transactionId]
               /\ heap' = RecordRun(heap, run, 0)
          ELSE /\ runs' = [runs EXCEPT ![i] =
                              Catch([@ EXCEPT !.errorMsg = TxNotFoundMsg],
                                    TxNotFoundMsg)]
               /\ heap' = heap
       /\ UNCHANGED <<isInitialized, files, cronJob, activeTimers, stats, restarted>>
       /\ UNCHANGED <<retryVars, attestVars, evalVars, cliVars, batchVars, logVars, reqVars, chainVars, config, retrievals, cronError>>

DelegateSettles ==
    \E i \in 1..Len(runs), leoResult \in delegateAleoTransaction :
        DelegateSettlesWith(i, leoResult)

Next ==
    \/ Initialize
    \/ StartPeriodic
    \/ StartDeviation
    \/ StartCronJob
    \/ StopPeriodic
    \/ StopDeviation
    \/ StopCronJob
    \/ Tick
    \/ ManualTrigger
    \/ CronJobAlertSent
    \/ AttestationThrows
    \/ AttestationReturns
    \/ DelegateSettles

Spec == Init /\ [][Next]_vars

\* ------------------------------------------------------------------------
\* Properties of the cron jobs and their executions
\* ------------------------------------------------------------------------

JobOf(run) == <<run.kind, run.coin>>

\* C1: an execution in which a retrieval or a submission has failed (its
\* errorMsg is set) ends there as a terminal failure: it is never again
\* waiting for an attestation report or for a submission.
C1_FailedRoundEndsExecution ==
    \A i \in 1..Len(runs) :
        runs[i].errorMsg # NoMsg => runs[i].pc \notin {"attest", "delegate"}

\* C8: in every step in which a run completes, the JobStats of its job
\* satisfy totalRuns = successfulRuns + failedRuns afterwards.
C8_TotalIsSuccessPlusFailed ==
    [][\A i \in 1..Len(runs) :
          (runs[i].pc # "done" /\ runs'[i].pc = "done" /\ stats'[JobOf(runs[i])] # 0)
          => LET s == heap'[JobOf(runs[i])][stats'[JobOf(runs[i])]]
             IN s.totalRuns = s.successfulRuns + s.failedRuns]_vars

\* C9: every job is fully stopped (no timer, no stats) or fully running (one
\* timer active, stats present).
C9_FullyStoppedOrFullyRunning ==
    \A j \in Jobs :
        \/ ~cronJob[j] /\ activeTimers[j] = 0 /\ stats[j] = 0
        \/ cronJob[j] /\ activeTimers[j] > 0 /\ stats[j] # 0

\* C10: a Start call that finds its job started leaves it as it was: the
\* job keeps exactly one active timer, its stats entry and the counters of
\* its stats objects.
C10_StartOnStartedJobIsNoOp ==
    [][\A j \in Jobs :
          (/\ runs' = runs
           /\ files' = files
           /\ cronJob[j]
           /\ j \in restarted')
          => /\ cronJob'[j]
             /\ activeTimers[j] = 1
             /\ activeTimers'[j] = 1
             /\ stats'[j] = stats[j]
             /\ heap'[j] = heap[j]]_vars

\* A started job with counted runs was started again and kept one timer and
\* its counters.
C10_Witness ==
    \E j \in Jobs :
        /\ j \in restarted
        /\ cronJob[j]
        /\ activeTimers[j] = 1
        /\ stats[j] # 0
        /\ heap[j][stats[j]].totalRuns >= 1
        /\ heap[j][stats[j]].successfulRuns >= 1

\* getCronJobStats: this.<kind>PriceUpdateStats[coin] || null for one job
\* (null is the empty sequence).
getCronJobStats(j) == IF stats[j] = 0 THEN <<>> ELSE <<heap[j][stats[j]]>>

\* C11: a job that Stop has stopped and no Start has started since has no
\* active timer, and a status query for it returns absent. (After
\* initialize() an enabled job is without a CronJob exactly in that case:
\* initialize() starts it, only Stop clears the entry and every Start aimed
\* at it sets it again.)
C11_StoppedJobStaysAbsent ==
    \A j \in Jobs :
        (isInitialized /\ CronEnabled(j) /\ ~cronJob[j])
        => (activeTimers[j] = 0 /\ getCronJobStats(j) = <<>>)

\* The executions of job j that have begun and not returned.
InFlight(j) == {i \in 1..Len(runs) : JobOf(runs[i]) = j /\ runs[i].pc # "done"}

\* C13: an execution in whose job body an exception was raised (its errorMsg
\* is set by the catch) has been recorded as a failed run: failedRuns of its
\* stats object was incremented.
C13_ExceptionRecordedAsFailedRun ==
    \A i \in 1..Len(runs) :
        runs[i].errorMsg # NoMsg
        => heap[JobOf(runs[i])][runs[i].stats].failedRuns >= 1

\* C14: at most one execution of a job is in flight at any time.
C14_AtMostOneInFlight ==
    \A j \in Jobs : Cardinality(InFlight(j)) <= 1

\* C16: when the retrieval of a deviation run returns for a coin whose
\* price log held no price, the run decides "update": it goes on to the
\* submission.
C16_FirstDeviationRunUpdates ==
    [][\A i \in 1..Len(runs) :
          (/\ runs[i].kind = "deviation"
           /\ runs[i].pc = "attest"
           /\ Len(files[PriceFilePath(runs[i].coin)]) = 0
           /\ Len(files'[PriceFilePath(runs[i].coin)]) = 1
           /\ runs'[i] # runs[i])
          => runs'[i].pc = "delegate"]_vars

\* ---------------------------------------------------------------------------
\* checkTokenPriceDeviation as a function of its arguments and of the
\* configured threshold of the coin.
\* ---------------------------------------------------------------------------

\* Thresholds a coin may be configured with (`deviation || 0`: 0 when unset).
Thresholds == {0, 5, 6, 100}

\* Current and last prices the function is called with.
EvalPrices == {0, 1, 99, 100, 105, 106, 200}

InitDeviation ==
    /\ RetryOff
    /\ CliOff
    /\ BatchOff
    /\ LogOff
    /\ ReqOff
    /\ ChainOff
    /\ AttestOff
    /\ Constructed
    /\ \E d \in [Coins -> Thresholds] :
           config = [DefaultConfig EXCEPT !.deviation = d]
    /\ evalPc = "call"
    /\ evalCoin \in Coins
    /\ evalCurrent \in EvalPrices
    /\ evalLast \in [price : EvalPrices]
    /\ evalResult = FALSE

Evaluate ==
    /\ evalPc = "call"
    /\ evalPc' = "returned"
    /\ evalResult' = checkTokenPriceDeviation(evalCoin, evalCurrent, evalLast)
    /\ UNCHANGED <<evalCoin, evalCurrent, evalLast>>
    /\ UNCHANGED <<retryVars, attestVars, schedVars, cliVars, batchVars, logVars, reqVars, chainVars>>

NextDeviation == Evaluate

SpecDeviation == InitDeviation /\ [][NextDeviation]_vars

C18_ZeroLastPriceAlwaysUpdates ==
    (evalPc = "returned" /\ evalLast.price = 0) => evalResult

\* ---------------------------------------------------------------------------
\* Job executions of a service that starts with price logs written by an
\* earlier process: the streams are opened with flags 'a', so the lines of
\* the earlier process are kept.
\* ---------------------------------------------------------------------------

\* Lines each price log holds when the service is constructed.
PersistedLines == 1

InitRun ==
    /\ RetryOff
    /\ AttestOff
    /\ EvalOff
    /\ CliOff
    /\ BatchOff
    /\ LogOff
    /\ ReqOff
    /\ ChainOff
    /\ config = DefaultConfig
    /\ isInitialized = FALSE
    /\ files \in [{PriceFilePath(c) : c \in Coins} -> [1..PersistedLines -> Prices]]
    /\ cronJob = [j \in Jobs |-> FALSE]
    /\ activeTimers = [j \in Jobs |-> 0]
    /\ stats = [j \in Jobs |-> 0]
    /\ heap = [j \in Jobs |-> <<>>]
    /\ runs = <<>>
    /\ restarted = {}
    /\ retrievals = [c \in Coins |-> 0]
    /\ cronError = FALSE

AttestationReturnsAfterRestart ==
    AttestationReturnsWithin(PersistedLines + MaxLines)

\* Calls of getAttestationReport from outside the jobs that are followed.
MaxDirect == 1

\* await this.getAttestationReport(coinName) resolves for a caller other
\* than setSgxData (the method is public; prepareAttestationReportForVerulend
\* calls it for each of its tokens): the report is returned, nothing else
\* is done.
DirectAttestationReturns ==
    \E coinName \in Coins :
        /\ retrievals[coinName] < MaxDirect
        /\ retrievals' = [retrievals EXCEPT ![coinName] = @ + 1]
        /\ UNCHANGED <<isInitialized, files, cronJob, activeTimers, stats, heap,
                       runs, restarted, config, cronError>>
        /\ UNCHANGED <<retryVars, attestVars, evalVars, cliVars, batchVars, logVars, reqVars, chainVars>>

NextRun ==
    \/ Initialize
    \/ DirectAttestationReturns
    \/ Tick
    \/ ManualTrigger
    \/ CronJobAlertSent
    \/ AttestationThrows
    \/ AttestationReturnsAfterRestart
    \/ DelegateSettles

SpecRun == InitRun /\ [][NextRun]_vars

\* The retrieval of deviation run i returns in this step, the log of its
\* coin holding only the lines written before the service was constructed.
DeviationRetrievalReturns(i) ==
    /\ runs[i].kind = "deviation" /\ runs[i].pc = "attest"
    /\ Len(files[PriceFilePath(runs[i].coin)]) = PersistedLines
    /\ Len(files'[PriceFilePath(runs[i].coin)]) = PersistedLines + 1
    /\ runs'[i] # runs[i]

\* The price last logged before the run and the price retrieved by it.
LastLogged(i) == files[PriceFilePath(runs[i].coin)][PersistedLines]
Retrieved(i) == files'[PriceFilePath(runs[i].coin)][PersistedLines + 1]

\* |current - last| / last * 100 >= threshold of the coin
DeviatesAtLeastThreshold(i) ==
    Abs(Retrieved(i) - LastLogged(i)) * 100
        >= config.deviation[runs[i].coin] * LastLogged(i)

\* C19: a deviation run whose retrieved price deviates from the price last
\* logged before the run by less than the threshold attempts no submission,
\* appends the new price to the log, counts as successful and carries no
\* transaction id.
C19_SmallDeviationCompletesWithoutSubmission ==
    [][\A i \in 1..Len(runs) :
          (DeviationRetrievalReturns(i) /\ ~DeviatesAtLeastThreshold(i))
          => /\ runs'[i].pc = "done"
             /\ runs'[i].txnId = Null
             /\ heap'[JobOf(runs[i])][runs[i].stats].successfulRuns
                    = heap[JobOf(runs[i])][runs[i].stats].successfulRuns + 1]_vars

\* C20: a deviation run whose retrieved price deviates from the price last
\* logged before the run by at least the threshold attempts a submission,
\* and when the output of the backend holds a transaction id the run
\* returns it.
C20_LargeDeviationSubmits ==
    [][\A i \in 1..Len(runs) :
          /\ (DeviationRetrievalReturns(i) /\ DeviatesAtLeastThreshold(i))
             => runs'[i].pc = "delegate"
          /\ (runs[i].kind = "deviation" /\ runs[i].pc = "delegate"
                  /\ runs'[i].pc = "done")
             => runs'[i].txnId = TxnId]_vars

\* C15: every call of getAttestationReport that returns a report for a
\* coin, from a job execution or from a direct caller, appends one record
\* to the price log of the coin.
C15_EveryRetrievalIsLogged ==
    [][\A c \in Coins :
          retrievals'[c] = retrievals[c] + 1
          => Len(files'[PriceFilePath(c)]) = Len(files[PriceFilePath(c)]) + 1]_vars

\* ---------------------------------------------------------------------------
\* The cron methods under every configuration of enabled flags and of
\* schedules that are or are not cron expressions.
\* ---------------------------------------------------------------------------

InitStart ==
    /\ RetryOff
    /\ AttestOff
    /\ EvalOff
    /\ CliOff
    /\ BatchOff
    /\ LogOff
    /\ ReqOff
    /\ ChainOff
    /\ Constructed
    /\ \E e \in [Jobs -> BOOLEAN], v \in [Jobs -> BOOLEAN] :
           config = [DefaultConfig EXCEPT !.enabled = e, !.valid = v]

NextStart ==
    \/ Initialize
    \/ StartPeriodic
    \/ StartDeviation
    \/ StartCronJob
    \/ StopPeriodic
    \/ StopDeviation
    \/ StopCronJob

SpecStart == InitStart /\ [][NextStart]_vars

Pieces == {"a", "t", " ", "status code 201"}

IdChars == {"a", "t"}

\* The least number of [0-9a-z] characters after "at" in a transaction id:
\* 50 in /at[0-9a-z]{50,}/, scaled down.
IdTail == 2

\* Pieces one subprocess writes to both streams together.
MaxOutput == 4

\* code of the close event: a number, or null when a signal ended the process
ExitCodes == {"0", "1", "null"}

\* /at[0-9a-z]{50,}/.test(s)
TestTransactionId(s) ==
    \E i \in 1..Len(s) :
        /\ i + 1 + IdTail <= Len(s)
        /\ s[i] = "a" /\ s[i + 1] = "t"
        /\ \A k \in 1..IdTail : s[i + 1 + k] \in IdChars

\* A test that looks at the standard output only.
hasTransactionIdOnStdout(out, err) == TestTransactionId(out)

\* const hasTransactionId = /at.../.test(dataOutput) || /at.../.test(errorOutput)
hasTransactionId(out, err) == TestTransactionId(out) \/ TestTransactionId(err)

\* s.includes('status code 201')
IncludesStatus201(s) == \E i \in 1..Len(s) : s[i] = "status code 201"

hasSuccessStatus(out, err) == IncludesStatus201(out) \/ IncludesStatus201(err)

\* const isCleanExit = code === 0 && !errorOutput
isCleanExit(code, err) == code = "0" /\ err = <<>>

\* A close handler that resolves only for a transaction id.
ClassifiedSuccessIdOnly(code, out, err) == hasTransactionId(out, err)

\* if (isCleanExit || hasTransactionId || hasSuccessStatus) resolve(...)
\* else reject(...)
ClassifiedSuccess(code, out, err) ==
    \/ isCleanExit(code, err)
    \/ hasTransactionId(out, err)
    \/ hasSuccessStatus(out, err)

\* executeLeo is called: func spawns the first subprocess.
InitLeo ==
    /\ RetryOff
    /\ AttestOff
    /\ SchedOff
    /\ EvalOff
    /\ BatchOff
    /\ LogOff
    /\ ReqOff
    /\ ChainOff
    /\ QueueOff
    /\ leoPc = "running" /\ leoAttempt = 1
    /\ dataOutput = <<>> /\ errorOutput = <<>>
    /\ killed = FALSE /\ exitCode = "none"

\* leoProcess.stdout.on('data'): the data is appended and, when the output
\* so far holds a transaction id, the subprocess is killed.
StdoutData ==
    \E piece \in Pieces :
        /\ leoPc = "running"
        /\ Len(dataOutput) + Len(errorOutput) < MaxOutput
        /\ dataOutput' = Append(dataOutput, piece)
        /\ killed' = (killed \/ TestTransactionId(dataOutput'))
        /\ UNCHANGED <<leoPc, leoAttempt, errorOutput, exitCode>>
        /\ UNCHANGED <<retryVars, attestVars, schedVars, evalVars, queueVars, batchVars, logVars, reqVars, chainVars>>

\* leoProcess.stderr.on('data'): the data is appended.
StderrData ==
    \E piece \in Pieces :
        /\ leoPc = "running"
        /\ Len(dataOutput) + Len(errorOutput) < MaxOutput
        /\ errorOutput' = Append(errorOutput, piece)
        /\ UNCHANGED <<leoPc, leoAttempt, dataOutput, killed, exitCode>>
        /\ UNCHANGED <<retryVars, attestVars, schedVars, evalVars, queueVars, batchVars, logVars, reqVars, chainVars>>

\* leoProcess.on('close'): the attempt resolves or rejects; after a
\* rejection retry({ func, label, retries: 3 }) either invokes func again,
\* which spawns a new subprocess, or rejects.
Close ==
    \E code \in ExitCodes :
        /\ leoPc = "running"
        /\ exitCode' = code
        /\ IF ClassifiedSuccess(code, dataOutput, errorOutput)
           THEN /\ leoPc' = "resolved"
                /\ UNCHANGED <<leoAttempt, dataOutput, errorOutput, killed>>
           ELSE IF RetryDecision(Error("exit"), LeoRetries, leoAttempt - 1)
           THEN /\ leoAttempt' = leoAttempt + 1
                /\ dataOutput' = <<>> /\ errorOutput' = <<>>
                /\ killed' = FALSE
                /\ UNCHANGED leoPc
           ELSE /\ leoPc' = "rejected"
                /\ UNCHANGED <<leoAttempt, dataOutput, errorOutput, killed>>
        /\ UNCHANGED <<retryVars, attestVars, schedVars, evalVars, queueVars, batchVars, logVars, reqVars, chainVars>>

NextLeo ==
    \/ StdoutData
    \/ StderrData
    \/ Close

SpecLeo == InitLeo /\ [][NextLeo]_vars

\* The close event of the running subprocess is handled in this step.
Closes == leoPc = "running" /\ (leoPc' # "running" \/ leoAttempt' # leoAttempt)

\* C21: a subprocess whose standard output or error output holds a
\* transaction id is classified as a success whatever its exit code, a
\* number or null, and no other subprocess is spawned for the submission.
C21_TransactionIdMeansSuccess ==
    [][(Closes /\ (TestTransactionId(dataOutput) \/ TestTransactionId(errorOutput)))
       => (leoPc' = "resolved" /\ leoAttempt' = leoAttempt)]_vars

C21_Witness ==
    /\ leoPc = "resolved" /\ leoAttempt = 1
    /\ exitCode \in {"1", "null"}
    /\ ~TestTransactionId(dataOutput) /\ TestTransactionId(errorOutput)

\* ---------------------------------------------------------------------------
\* executeLeoWithQueue: submissions handed to the PQueue, each running
\* executeLeo (every attempt one subprocess) while it holds a slot.
\* ---------------------------------------------------------------------------

\* Submissions handed to the queue.
MaxTasks == 3

\* queueConfig.concurrency is drawn from 1..MaxConcurrency (the schema asks
\* for an integer >= 1).
MaxConcurrency == 2

\* Subprocesses of one submission that are followed (retry allows
\* LeoRetries + 1 of them).
MaxAttempts == 5

\* The outcome of the close handler for one subprocess.
Classifications == {"success", "failure"}

\* A queue whose slot is never given back.
PendingForever(ts) == {i \in 1..Len(ts) : ts[i].pc # "queued"}

\* A queue whose slot is given up while a submission waits to retry.
PendingWhileRunning(ts) == {i \in 1..Len(ts) : ts[i].pc = "running"}

\* The submissions that hold a slot of the queue (PQueue's pending count):
\* their executeLeo promise has been started and has not settled.
Pending(ts) == {i \in 1..Len(ts) : ts[i].pc \in {"running", "backoff"}}

\* The submissions with a subprocess that was spawned and has not closed.
Running(ts) == {i \in 1..Len(ts) : ts[i].pc = "running"}

\* A queue that starts every job at once.
HasFreeSlotAlways(ts) == TRUE

\* PQueue starts a job only while pending < concurrency.
HasFreeSlot(ts) == Cardinality(Pending(ts)) < concurrency

\* PQueue after a change: while a slot is free, the oldest waiting
\* submission is started; executeLeo's func spawns its first subprocess.
RECURSIVE StartWaiting(_, _)
StartWaiting(ts, w) ==
    IF w # <<>> /\ HasFreeSlot(ts)
    THEN StartWaiting([ts EXCEPT ![Head(w)] = [pc |-> "running", attempt |-> 1]],
                      Tail(w))
    ELSE [tasks |-> ts, waiting |-> w]

SetQueue(q) ==
    /\ tasks' = q.tasks
    /\ waiting' = q.waiting

InitQueue ==
    /\ RetryOff
    /\ AttestOff
    /\ SchedOff
    /\ EvalOff
    /\ BatchOff
    /\ LogOff
    /\ ReqOff
    /\ ChainOff
    /\ LeoOff
    /\ concurrency \in 1..MaxConcurrency
    /\ tasks = <<>>
    /\ waiting = <<>>

\* executeLeoWithQueue: queue.add(() => executeLeo(...))
ExecuteLeoWithQueue ==
    /\ Len(tasks) < MaxTasks
    /\ SetQueue(StartWaiting(Append(tasks, [pc |-> "queued", attempt |-> 0]),
                             Append(waiting, Len(tasks) + 1)))
    /\ UNCHANGED concurrency
    /\ UNCHANGED <<retryVars, attestVars, schedVars, evalVars, leoVars, batchVars, logVars, reqVars, chainVars>>

\* The subprocess of a submission closes: the attempt resolves, and with it
\* executeLeo; or it rejects, and retry either waits to invoke func again
\* or rejects, and with it executeLeo. A settled executeLeo frees its slot.
SubprocessCloses ==
    \E i \in 1..Len(tasks), classified \in Classifications :
        /\ tasks[i].pc = "running"
        /\ IF classified = "success"
           THEN SetQueue(StartWaiting([tasks EXCEPT ![i].pc = "resolved"], waiting))
           ELSE IF RetryDecision(Error("exit"), LeoRetries, tasks[i].attempt - 1)
           THEN SetQueue([tasks |-> [tasks EXCEPT ![i].pc = "backoff"],
                          waiting |-> waiting])
           ELSE SetQueue(StartWaiting([tasks EXCEPT ![i].pc = "rejected"], waiting))
        /\ UNCHANGED concurrency
        /\ UNCHANGED <<retryVars, attestVars, schedVars, evalVars, leoVars, batchVars, logVars, reqVars, chainVars>>

\* The delay of onFailedAttempt is over: func is invoked again and spawns
\* the next subprocess.
BackoffEnds ==
    \E i \in 1..Len(tasks) :
        /\ tasks[i].pc = "backoff"
        /\ tasks[i].attempt < MaxAttempts
        /\ tasks' = [tasks EXCEPT ![i] = [pc |-> "running", attempt |-> @.attempt + 1]]
        /\ UNCHANGED <<concurrency, waiting>>
        /\ UNCHANGED <<retryVars, attestVars, schedVars, evalVars, leoVars, batchVars, logVars, reqVars, chainVars>>

NextQueue ==
    \/ ExecuteLeoWithQueue
    \/ SubprocessCloses
    \/ BackoffEnds

SpecQueue == InitQueue /\ [][NextQueue]_vars

\* C22: the subprocesses running at the same time are never more than the
\* configured worker count; with a count of 1 they run one at a time.
C22_SubprocessesWithinWorkerCount ==
    /\ Cardinality(Running(tasks)) <= concurrency
    /\ concurrency = 1 => Cardinality(Running(tasks)) <= 1

C22_Witness ==
    /\ concurrency = 1
    /\ Cardinality(Running(tasks)) = 1
    /\ Len(waiting) = MaxTasks - 1

\* C37: with one worker a submission keeps its slot over all its attempts
\* and delays, and submissions are admitted in the order they were handed
\* in: a submission has been admitted only when every submission handed in
\* before it has settled.
C37_OneWorkerRunsSubmissionsInOrder ==
    concurrency = 1
    => \A i, j \in 1..Len(tasks) :
           (i < j /\ tasks[j].pc # "queued")
           => tasks[i].pc \in {"resolved", "rejected"}

\* The first submission waits to retry after a failed attempt while the
\* others wait in the queue in the order they were handed in.
C37_Witness ==
    /\ concurrency = 1
    /\ Len(tasks) = MaxTasks
    /\ tasks[1].pc = "backoff" /\ tasks[1].attempt = 2
    /\ waiting = <<2, 3>>

\* ---------------------------------------------------------------------------
\* What a finished job execution returns
\* ---------------------------------------------------------------------------

\* A result that carries the message kept by the loop of setSgxData.
ResponseWithLoopError(run) ==
    IF run.txnId = Null THEN <<>>
    ELSE <<[coinName |-> run.coin, txnId |-> run.txnId,
            errorMsg |-> IF run.errorMsg = NoMsg THEN Null ELSE run.errorMsg]>>

\* `response` of setSgxData, which the handler returns: null (no element)
\* unless a transaction id was found, and then
\* { coinName, txnId: transactionId, errorMsg: null }.
Response(run) ==
    IF run.txnId = Null THEN <<>>
    ELSE <<[coinName |-> run.coin, txnId |-> run.txnId, errorMsg |-> Null]>>

SpecQueueFair ==
    /\ SpecQueue
    /\ WF_vars(SubprocessCloses)
    /\ WF_vars(BackoffEnds)

Enqueued(i) == Len(tasks) >= i

\* C38: when every spawned subprocess closes at some time, every submission
\* handed to the queue is admitted at some time and settles at some time,
\* with a success or, after LeoRetries + 1 subprocesses, with a failure,
\* however many submissions are in the queue.
C38_EverySubmissionAdmittedAndSettled ==
    /\ \A i \in 1..MaxTasks :
           Enqueued(i) ~> (Enqueued(i) /\ tasks[i].pc # "queued")
    /\ \A i \in 1..MaxTasks :
           Enqueued(i) ~> (Enqueued(i) /\ tasks[i].pc \in {"resolved", "rejected"})
    /\ [](\A i \in 1..Len(tasks) :
             tasks[i].pc = "rejected" => tasks[i].attempt = LeoRetries + 1)

\* Every submission the queue can hold was handed in while the workers were
\* busy, and all of them have settled, the last one with a failure.
C38_Witness ==
    /\ Len(tasks) = MaxTasks
    /\ \A i \in 1..MaxTasks : tasks[i].pc \in {"resolved", "rejected"}
    /\ tasks[MaxTasks].pc = "rejected"
    /\ tasks[1].pc = "resolved" /\ tasks[1].attempt > 1

\* ------------------------------------------------------------------------
\* POST /set-sgx-data-all (routes/oracle.ts) over handlePriceUpdateCron and
\* setSgxData of the service of that file
\* ------------------------------------------------------------------------

\* Requests of /set-sgx-data-all followed, one after the other.
MaxBatches == 3

\* `No notarization result received for ${coinName}` and the other messages
\* the loop of setSgxData records
UpdateFailedMsg == "update failed"

\* What setSgxData(coinName) returns: the loop over the shuffled notarizers
\* ends with a transaction id, or runs out of notarizers and the error
\* message of the first failure is returned with a null transaction id.
SgxDataResults(coinName) ==
    { [coinName |-> coinName, txnId |-> TxnId, errorMsg |-> Null],
      [coinName |-> coinName, txnId |-> Null, errorMsg |-> UpdateFailedMsg] }

NoCoinStats == [totalRuns |-> 0, successfulRuns |-> 0, failedRuns |-> 0]

\* handlePriceUpdateCron after setSgxData returned sgx: a result with an
\* error message is thrown as new Error(errorMsg) inside the inner try, the
\* catch counts it and takes `(err as any)?.data`, which that error does not
\* have, as the response; the counters are updated and the response is
\* returned. Nothing reaches the outer catch, so the call never throws.
handlePriceUpdateCron(sgx) ==
    [threw |-> FALSE,
     errorCount |-> IF sgx.errorMsg # Null THEN 1 ELSE 0,
     response |-> IF sgx.errorMsg # Null THEN <<>> ELSE <<sgx>>]

InitBatch ==
    /\ batchPc = "idle" /\ batchIndex = 0
    /\ results = <<>> /\ errors = <<>> /\ batchResponse = <<>>
    /\ coinStats = [c \in Coins |-> NoCoinStats]
    /\ settled = <<>> /\ batches = 0
    /\ RetryOff /\ AttestOff /\ SchedOff /\ EvalOff /\ CliOff /\ LogOff
    /\ ReqOff
    /\ ChainOff

\* router.post('/set-sgx-data-all'): results and errors start empty and the
\* loop starts with the first coin of COIN_LIST.
SetSgxDataAll ==
    /\ batchPc \in {"idle", "responded"}
    /\ batches < MaxBatches
    /\ batches' = batches + 1
    /\ results' = <<>> /\ errors' = <<>> /\ settled' = <<>>
    /\ batchResponse' = <<>>
    /\ batchIndex' = 1
    /\ batchPc' = "handle"
    /\ UNCHANGED coinStats
    /\ UNCHANGED <<retryVars, attestVars, schedVars, evalVars, cliVars, logVars, reqVars, chainVars>>

\* handlePriceUpdateCron(coinName) up to its call of setSgxData: the run is
\* counted.
HandleBegins ==
    /\ batchPc = "handle"
    /\ LET coinName == COIN_LIST[batchIndex]
       IN  coinStats' = [coinStats EXCEPT ![coinName].totalRuns = @ + 1]
    /\ batchPc' = "setSgxData"
    /\ UNCHANGED <<batchIndex, results, errors, batchResponse, settled, batches>>
    /\ UNCHANGED <<retryVars, attestVars, schedVars, evalVars, cliVars, logVars, reqVars, chainVars>>

\* setSgxData settles, handlePriceUpdateCron counts the outcome and returns,
\* and the loop of the route pushes the result (or, had the call thrown, an
\* entry of errors) and goes on with the next coin; after the last coin the
\* response is sent with success: errors.length === 0.
SetSgxDataSettles ==
    /\ batchPc = "setSgxData"
    /\ \E sgx \in SgxDataResults(COIN_LIST[batchIndex]) :
         LET coinName == COIN_LIST[batchIndex]
             h == handlePriceUpdateCron(sgx)
             results1 == IF h.threw THEN results
                         ELSE Append(results, h.response)
             errors1 == IF h.threw
                        THEN Append(errors, [coinName |-> coinName,
                                             error |-> sgx.errorMsg])
                        ELSE errors
         IN  /\ settled' = Append(settled, sgx)
             /\ coinStats' =
                  IF h.errorCount = 0
                  THEN [coinStats EXCEPT ![coinName].successfulRuns = @ + 1]
                  ELSE [coinStats EXCEPT ![coinName].failedRuns = @ + 1]
             /\ results' = results1
             /\ errors' = errors1
             /\ IF batchIndex < Len(COIN_LIST)
                THEN /\ batchIndex' = batchIndex + 1
                     /\ batchPc' = "handle"
                     /\ UNCHANGED batchResponse
                ELSE /\ batchPc' = "responded"
                     /\ batchResponse' =
                          <<[success |-> Len(errors1) = 0,
                             data |-> [results |-> results1,
                                       errors |-> errors1]]>>
                     /\ UNCHANGED batchIndex
    /\ UNCHANGED batches
    /\ UNCHANGED <<retryVars, attestVars, schedVars, evalVars, cliVars, logVars, reqVars, chainVars>>

NextBatch == SetSgxDataAll \/ HandleBegins \/ SetSgxDataSettles

SpecBatch == InitBatch /\ [][NextBatch]_vars

\* The update of the i-th coin of the request failed.
CoinFailed(i) == settled[i].txnId = Null

\* The response reports the i-th coin: an entry of results that names the
\* coin and holds exactly one of its transaction id and its error message,
\* or an entry of errors that names the coin.
CoinReported(i) ==
    \/ \E k \in 1..Len(batchResponse[1].data.results) :
         LET r == batchResponse[1].data.results[k]
         IN  /\ r # <<>>
             /\ r[1].coinName = COIN_LIST[i]
             /\ (r[1].txnId # Null) # (r[1].errorMsg # Null)
             /\ (r[1].txnId = Null) = CoinFailed(i)
    \/ \E k \in 1..Len(batchResponse[1].data.errors) :
         /\ batchResponse[1].data.errors[k].coinName = COIN_LIST[i]
         /\ CoinFailed(i)

\* C25: the response of the trigger-all operation covers every configured
\* coin, also after the update of an earlier coin failed, reports a
\* structured success or failure for each coin, and its success flag is
\* true only when no coin failed.
C25_TriggerAllReportsEveryCoin ==
    batchPc = "responded"
    => /\ Len(settled) = Len(COIN_LIST)
       /\ \A i \in 1..Len(COIN_LIST) : CoinReported(i)
       /\ batchResponse[1].success
              => \A i \in 1..Len(COIN_LIST) : ~CoinFailed(i)

\* The retrieval of run i returns a report in this step.
RetrievalReturns(i) ==
    /\ runs[i].pc = "attest"
    /\ retrievals'[runs[i].coin] = retrievals[runs[i].coin] + 1
    /\ runs'[i] # runs[i]

\* The price the retrieval of run i returned in this step, and the verdict
\* of the evaluator for it: no verdict ("none") when the evaluator was given
\* no last price and threw.
RetrievedPrice(i) ==
    LET log == files'[PriceFilePath(runs[i].coin)] IN log[Len(log)]

EvaluatorVerdict(i) ==
    LET last == getLastTrackedPrice(files', runs[i].coin)
    IN IF last = Null THEN "none"
       ELSE IF checkTokenPriceDeviation(runs[i].coin, RetrievedPrice(i), last)
       THEN "update" ELSE "no-update"

\* C26: a periodic run goes on to the submission whenever its retrieval
\* returned a report; a deviation run goes on to the submission only in a
\* step in which its retrieval returned and the evaluator answered "update"
\* for the retrieved price.
C26_PeriodicAlwaysSubmitsDeviationOnlyOnUpdate ==
    [][\A i \in 1..Len(runs) :
          /\ (runs[i].kind = "periodic" /\ RetrievalReturns(i))
             => runs'[i].pc = "delegate"
          /\ (runs[i].kind = "deviation" /\ runs[i].pc # "delegate"
                  /\ runs'[i].pc = "delegate")
             => (RetrievalReturns(i) /\ EvaluatorVerdict(i) = "update")]_vars

\* A periodic run is waiting for its submission after its retrieval
\* returned, and a deviation run of another coin has retrieved and submits
\* nothing.
C26_Witness ==
    \E i, k \in 1..Len(runs) :
        /\ runs[i].kind = "periodic" /\ runs[i].pc = "delegate"
        /\ runs[k].kind = "deviation" /\ runs[k].coin # runs[i].coin
        /\ runs[k].errorMsg = NullDerefMsg /\ runs[k].pc = "attest"

\* The proof inputs of the n-th report returned for a coin, in the order
\* the program set_sgx_data takes them.
ExpectedInputs(coin, n) ==
    <<<<"userData", coin, n>>, <<"report", coin, n>>,
      <<"signature", coin, n>>, <<"address", coin, n>>>>

\* The counters of the stats object run i counts in.
Counters(h, i) ==
    <<h[JobOf(runs[i])][runs[i].stats].successfulRuns,
      h[JobOf(runs[i])][runs[i].stats].failedRuns>>

\* Run k completes in this step with the outcome of its submission, or, as a
\* deviation run, with the verdict "no-update" of the evaluator.
CompletesAfterOutcome(k) ==
    /\ runs[k].pc # "done" /\ runs'[k].pc = "done"
    /\ \/ runs[k].pc = "delegate" /\ runs'[k].txnId # Null
       \/ /\ runs[k].kind = "deviation" /\ RetrievalReturns(k)
          /\ EvaluatorVerdict(k) = "no-update"

\* C27: within one execution a submission is issued only in the step in
\* which a retrieval of that execution returned a report (and, for a
\* deviation run, the evaluator was asked), it carries userData, report,
\* signature and address of that report, and the success and failure
\* counters of the job change only in a step in which a run of the job
\* completes with the outcome of its submission known.
C27_RetrieveEvaluateSubmitRecord ==
    [][\A i \in 1..Len(runs) :
          /\ (runs[i].pc # "delegate" /\ runs'[i].pc = "delegate")
             => /\ RetrievalReturns(i)
                /\ runs'[i].inputs
                       = ExpectedInputs(runs[i].coin,
                                        retrievals'[runs[i].coin])
                /\ runs[i].kind = "deviation"
                       => EvaluatorVerdict(i) = "update"
          /\ (runs[i].pc = "delegate" /\ runs'[i].pc = "delegate")
             => runs'[i].inputs = runs[i].inputs
          /\ (runs[i].pc # "done" /\ runs'[i].pc = "done")
             => CompletesAfterOutcome(i)
          /\ Counters(heap', i) # Counters(heap, i)
             => \E k \in 1..Len(runs) :
                    /\ JobOf(runs[k]) = JobOf(runs[i])
                    /\ runs[k].stats = runs[i].stats
                    /\ CompletesAfterOutcome(k)]_vars

\* A run completed with a transaction id after an earlier round of it had
\* failed: it submitted the inputs of the second report returned for its
\* coin, and its job counts one success.
C27_Witness ==
    \E i \in 1..Len(runs) :
        /\ runs[i].pc = "done" /\ runs[i].txnId = TxnId
        /\ runs[i].errorMsg # NoMsg
        /\ runs[i].attested = 2
        /\ runs[i].inputs = ExpectedInputs(runs[i].coin, 2)
        /\ heap[JobOf(runs[i])][runs[i].stats].successfulRuns = 1

\* Job j is stopped in this step.
Stopped(j) == cronJob[j] /\ ~cronJob'[j]

JobUnchanged(j) ==
    /\ cronJob'[j] = cronJob[j]
    /\ activeTimers'[j] = activeTimers[j]
    /\ stats'[j] = stats[j]
    /\ heap'[j] = heap[j]

\* The step is a Start or a Stop of job k alone.
StartOrStopOf(k) ==
    \/ /\ k[1] = "periodic"
       /\ \/ CronCall("startPeriodic", k[2],
                      startPeriodicPriceUpdateCron(Maps, k[2]))
          \/ CronCall("stopPeriodic", k[2],
                      stopPriceUpdateCron(Maps, "periodic", k[2]))
    \/ /\ k[1] = "deviation"
       /\ \/ CronCall("startDeviation", k[2],
                      startDeviationBasedPriceUpdateCron(Maps, k[2]))
          \/ CronCall("stopDeviation", k[2],
                      stopPriceUpdateCron(Maps, "deviation", k[2]))

\* The step begins an execution of job k or is a step of one.
ExecutionStepOf(k) ==
    \E i \in 1..Len(runs') :
        /\ JobOf(runs'[i]) = k
        /\ i > Len(runs) \/ runs'[i] # runs[i]

\* C29: a Start or a Stop of one job, and every step of an execution of one
\* job, leave the timer and the JobStats of every other job, of another coin
\* or of the other kind of the same coin, unchanged.
C29_OtherJobsUntouched ==
    [][\A k \in Jobs :
          (StartOrStopOf(k) \/ ExecutionStepOf(k))
          => \A j \in Jobs \ {k} : JobUnchanged(j)]_vars

\* The periodic job of BTC was stopped after an execution of it completed,
\* while the deviation job of BTC still has its timer and its stats and the
\* periodic stats of ETH are as initialize() left them.
C29_Witness ==
    /\ ~cronJob[<<"periodic", "BTC">>] /\ stats[<<"periodic", "BTC">>] = 0
    /\ \E i \in 1..Len(runs) :
           /\ JobOf(runs[i]) = <<"periodic", "BTC">>
           /\ runs[i].pc = "done"
    /\ cronJob[<<"deviation", "BTC">>]
    /\ activeTimers[<<"deviation", "BTC">>] = 1
    /\ stats[<<"deviation", "BTC">>] = 1
    /\ stats[<<"periodic", "ETH">>] = 1
    /\ heap[<<"periodic", "ETH">>] = <<NewStats>>

\* ---------------------------------------------------------------------------
\* The jobs when the configuration selects delegated proving, with and
\* without the credentials of the prover.
\* ---------------------------------------------------------------------------

InitCredentials ==
    /\ RetryOff
    /\ AttestOff
    /\ EvalOff
    /\ CliOff
    /\ BatchOff
    /\ LogOff
    /\ ReqOff
    /\ ChainOff
    /\ Constructed
    /\ \E c \in BOOLEAN :
           config = [DefaultConfig EXCEPT !.delegated = TRUE,
                                          !.credentials = c]

NextCredentials ==
    \/ Initialize
    \/ Tick
    \/ CronJobAlertSent
    \/ AttestationThrows
    \/ AttestationReturns
    \/ DelegateSettles

SpecCredentials == InitCredentials /\ [][NextCredentials]_vars

\* C30: with delegated proving selected and the API key or the consumer id
\* missing, no job is started: no timer is armed, no execution retrieves an
\* attestation or waits for a submission, and initialize() does not throw.
C30_MissingCredentialsRefuseStart ==
    (config.delegated /\ ~config.credentials)
    => /\ \A j \in Jobs : ~cronJob[j] /\ activeTimers[j] = 0
       /\ \A c \in Coins : retrievals[c] = 0
       /\ \A i \in 1..Len(runs) : runs[i].pc # "delegate"
       /\ ~cronError

\* C31: while a subprocess runs, as soon as the output accumulated from it
\* holds a transaction id, on the standard output or on the error output,
\* the subprocess has been killed.
C31_TransactionIdKillsSubprocess ==
    (leoPc = "running"
        /\ (TestTransactionId(dataOutput) \/ TestTransactionId(errorOutput)))
    => killed

\* C32: when the submission of an execution resolves with output that holds
\* no transaction id (the subprocess exited with code 0 and no error
\* output), the execution completes, its job counts a successful run, and
\* it does not go back to retrieving and submitting.
C32_CleanExitCountsAsSuccess ==
    [][\A i \in 1..Len(runs) :
          DelegateSettlesWith(i, "noTxn")
          => /\ runs'[i].pc = "done"
             /\ heap'[JobOf(runs[i])][runs[i].stats].successfulRuns
                    = heap[JobOf(runs[i])][runs[i].stats].successfulRuns + 1]_vars

\* The JobStats a job presents: the object its stats map points to.
PresentStats(j) == heap[j][stats[j]]

\* C40: for every job whose stats are present, successfulRuns + failedRuns
\* is at most totalRuns, and totalRuns - successfulRuns - failedRuns is the
\* number of executions of the job that are in flight.
C40_CountersAccountForRunsInFlight ==
    \A j \in Jobs :
        stats[j] # 0
        => /\ PresentStats(j).successfulRuns + PresentStats(j).failedRuns
                  <= PresentStats(j).totalRuns
           /\ PresentStats(j).totalRuns - PresentStats(j).successfulRuns
                  - PresentStats(j).failedRuns = Cardinality(InFlight(j))

\* The subprocess that closes in this step exited cleanly, or its output
\* holds a transaction id or the status 201.
ClosesAsSuccess ==
    /\ Closes
    /\ \/ isCleanExit(exitCode', errorOutput)
       \/ hasTransactionId(dataOutput, errorOutput)
       \/ hasSuccessStatus(dataOutput, errorOutput)

\* C39: a subprocess that closes as a success ends the submission, which
\* spawns no other subprocess afterwards; a new subprocess is spawned only
\* in the step in which the running one closes as a failure, and it is the
\* next attempt.
C39_NoSpawnAfterSuccess ==
    [][/\ ClosesAsSuccess => (leoPc' = "resolved" /\ leoAttempt' = leoAttempt)
       /\ leoPc = "resolved" => (leoPc' = "resolved" /\ leoAttempt' = leoAttempt)
       /\ leoAttempt' # leoAttempt
              => (Closes /\ ~ClosesAsSuccess /\ leoAttempt' = leoAttempt + 1)]_vars

\* The second subprocess of a submission exited with code 0 and no error
\* output, after the first one had failed.
C39_Witness ==
    /\ leoPc = "resolved" /\ leoAttempt = 2
    /\ exitCode = "0" /\ errorOutput = <<>>
    /\ ~TestTransactionId(dataOutput)

\* C35: one execution performs at most one retrieval round and at most one
\* submission: an execution that is calling getAttestationReport has had no
\* retrieval and no submission that failed before.
C35_OneRoundAndOneSubmitPerExecution ==
    \A i \in 1..Len(runs) :
        runs[i].pc = "attest" => runs[i].errorMsg = NoMsg

\* ---------------------------------------------------------------------------
\* The price logs: one write stream per coin, created by initialize(), and
\* the calls of trackCoinPrice made by the jobs of both kinds.
\* ---------------------------------------------------------------------------

\* Calls of trackCoinPrice followed, over all coins.
MaxAppends == 3

\* result.timestamp and result.attestationData as they are printed
Timestamps == {"t1", "t2"}
PriceTexts == {"100", "105"}

\* `${timestamp} ${price}\n`
LogLine(timestamp, price) == <<timestamp, " ", price, "\n">>

\* A stream of its own for every job kind of a coin.
StreamOfJob(coinName, kind) == <<coinName, kind>>

\* this.coinPriceStream[coinName]: the stream of the coin, whatever job
\* writes.
StreamOf(coinName, kind) == <<coinName>>

Streams == {<<c>> : c \in Coins} \cup (Coins \X Kinds)

\* The coin whose file a stream was opened on.
FileOf(stream) == stream[1]

RECURSIVE Flatten(_)
Flatten(chunks) ==
    IF chunks = <<>> THEN <<>> ELSE Head(chunks) \o Flatten(Tail(chunks))

\* initialize() has created the streams with flags 'a'; nothing is written.
InitLog ==
    /\ RetryOff /\ AttestOff /\ SchedOff /\ EvalOff /\ CliOff /\ BatchOff
    /\ ReqOff
    /\ ChainOff
    /\ buffers = [st \in Streams |-> <<>>]
    /\ disk = [c \in Coins |-> <<>>]
    /\ issued = [c \in Coins |-> <<>>]

\* trackCoinPrice({ coinName, timestamp, price }) called by a run of a job
\* of either kind: one write call with the whole line.
TrackCoinPrice ==
    \E coinName \in Coins, kind \in Kinds,
       timestamp \in Timestamps, price \in PriceTexts :
        LET line == LogLine(timestamp, price)
            st   == StreamOf(coinName, kind)
        IN /\ Len(issued["BTC"]) + Len(issued["ETH"]) < MaxAppends
           /\ buffers' = [buffers EXCEPT ![st] = Append(@, line)]
           /\ issued' = [issued EXCEPT ![coinName] = Append(@, line)]
           /\ UNCHANGED disk
           /\ UNCHANGED <<retryVars, attestVars, schedVars, evalVars, cliVars, batchVars, reqVars, chainVars>>

\* The stream writes to its file: the chunks of one stream go to the file in
\* the order of the write calls, a chunk possibly in several pieces, and
\* the next chunk only after the one before it is written whole.
StreamWrites ==
    \E st \in Streams :
        /\ buffers[st] # <<>>
        /\ LET chunk == Head(buffers[st])
           IN /\ disk' = [disk EXCEPT ![FileOf(st)] = Append(@, Head(chunk))]
              /\ buffers' = [buffers EXCEPT ![st] =
                                IF Len(chunk) = 1 THEN Tail(@)
                                ELSE <<Tail(chunk)>> \o Tail(@)]
        /\ UNCHANGED issued
        /\ UNCHANGED <<retryVars, attestVars, schedVars, evalVars, cliVars, batchVars, reqVars, chainVars>>

NextLog == TrackCoinPrice \/ StreamWrites

SpecLog == InitLog /\ [][NextLog]_vars

\* C33: the price log of a coin on disk holds, at every time, a prefix of
\* the lines of the appends issued for the coin, in the order in which they
\* were issued, every line whole ("<timestamp> <price>" and a newline) but
\* possibly the last, which is being written; what is not yet on disk is
\* still in the stream of the coin.
C33_AppendsAreSerialized ==
    \A c \in Coins :
        disk[c] \o Flatten(buffers[<<c>>]) = Flatten(issued[c])

\* Three appends were issued for one coin by jobs of both kinds before any
\* of them reached the disk, and two of them are now on disk in full.
C33_Witness ==
    /\ Len(issued["BTC"]) = 3
    /\ issued["BTC"][1] # issued["BTC"][2]
    /\ disk["BTC"] = issued["BTC"][1] \o issued["BTC"][2]
    /\ Len(buffers[<<"BTC">>]) = 1

\* ---------------------------------------------------------------------------
\* Concurrent calls of getAttestationReport for several coins: the request
\* object of the configuration is shared by all of them.
\* ---------------------------------------------------------------------------

\* Calls of getAttestationReport followed.
MaxCalls == 2

\* `price_feed: ${coinName.toLowerCase()}`
PriceFeedUrl(coinName) == <<"price_feed: ", toLowerCase[coinName]>>

\* Notarizers a call can try: oracleConfig.notarizers.length
CallNotarizers == 2

InitRequest ==
    /\ RetryOff /\ AttestOff /\ SchedOff /\ EvalOff /\ CliOff /\ BatchOff
    /\ LogOff /\ ChainOff
    /\ requestUrl = "none"
    /\ calls = <<>>

\* getAttestationReport(coinName) up to its first await:
\* buildAttestationRequest writes the url of the coin into
\* oracleConfig.attestationRequest and returns that object, the notarizers
\* are shuffled, and notarize(attestationRequest) is called on the first
\* one with the object as it is at that time.
GetAttestationReport ==
    \E coinName \in Coins :
        /\ Len(calls) < MaxCalls
        /\ requestUrl' = PriceFeedUrl(coinName)
        /\ calls' = Append(calls, [coinName |-> coinName, pc |-> "notarize",
                                   left |-> CallNotarizers - 1,
                                   sent |-> <<PriceFeedUrl(coinName)>>,
                                   attested |-> "none"])
        /\ UNCHANGED <<retryVars, attestVars, schedVars, evalVars, cliVars, batchVars, logVars, chainVars>>

\* await oracleClient.notarize(attestationRequest) resolves with a result:
\* the report attests the data of the url the request carried.
NotarizeResolves ==
    \E i \in 1..Len(calls) :
        /\ calls[i].pc = "notarize"
        /\ calls' = [calls EXCEPT ![i].pc = "returned",
                                  ![i].attested = calls[i].sent[Len(calls[i].sent)]]
        /\ UNCHANGED requestUrl
        /\ UNCHANGED <<retryVars, attestVars, schedVars, evalVars, cliVars, batchVars, logVars, chainVars>>

\* await oracleClient.notarize(attestationRequest) rejects or resolves with
\* nothing: the catch logs, and the loop calls notarize on the next
\* notarizer with the same request object, as it is now; with no
\* notarizer left the call throws.
NotarizeFails ==
    \E i \in 1..Len(calls) :
        /\ calls[i].pc = "notarize"
        /\ IF calls[i].left > 0
           THEN calls' = [calls EXCEPT ![i].left = @ - 1,
                                       ![i].sent = Append(@, requestUrl)]
           ELSE calls' = [calls EXCEPT ![i].pc = "threw"]
        /\ UNCHANGED requestUrl
        /\ UNCHANGED <<retryVars, attestVars, schedVars, evalVars, cliVars, batchVars, logVars, chainVars>>

NextRequest == GetAttestationReport \/ NotarizeResolves \/ NotarizeFails

SpecRequest == InitRequest /\ [][NextRequest]_vars

\* C34: every request a call of getAttestationReport for coin C issues, to
\* the first notarizer and to the later ones after a failover, carries the
\* query of C, and the report the call returns attests the query of C.
C34_RequestCarriesQueryOfItsCoin ==
    \A i \in 1..Len(calls) :
        /\ \A k \in 1..Len(calls[i].sent) :
               calls[i].sent[k] = PriceFeedUrl(calls[i].coinName)
        /\ calls[i].pc = "returned"
               => calls[i].attested = PriceFeedUrl(calls[i].coinName)

\* ---------------------------------------------------------------------------
\* Rounds of setSgxData of both job kinds, one after the other, and the
\* price the chain holds for each coin.
\* ---------------------------------------------------------------------------

\* Rounds followed for one coin.
MaxRounds == 3

\* Prices the notarizers attest: each next one is less than the threshold
\* (5 percent) away from the one before.
DriftPrices == {100, 103, 106}

InitDrift ==
    /\ RetryOff /\ AttestOff /\ EvalOff /\ CliOff /\ BatchOff /\ LogOff
    /\ ReqOff
    /\ config = DefaultConfig
    /\ isInitialized = TRUE
    /\ files = CreatePriceFiles(<<>>)
    /\ cronJob = [j \in Jobs |-> FALSE]
    /\ activeTimers = [j \in Jobs |-> 0]
    /\ stats = [j \in Jobs |-> 0]
    /\ heap = [j \in Jobs |-> <<>>]
    /\ runs = <<>>
    /\ restarted = {}
    /\ retrievals = [c \in Coins |-> 0]
    /\ cronError = FALSE
    /\ onChain = [c \in Coins |-> <<>>]

\* One round of the while loop of setSgxData for which getAttestationReport
\* returned: the price is tracked; with checkDeviation the evaluator is
\* called with the last tracked price (a null makes it throw, and the catch
\* ends the round); when the price is to be updated the transaction is
\* delegated, and a transaction id means the chain took the price.
SetSgxDataRound(coinName, checkDeviation, price, leoResult) ==
    LET fs   == trackCoinPrice(files, coinName, price)
        last == getLastTrackedPrice(fs, coinName)
        submits == IF checkDeviation /\ last = Null THEN FALSE
                   ELSE shouldUpdatePrice(checkDeviation, coinName, price, last)
    IN /\ Len(files[PriceFilePath(coinName)]) < MaxRounds
       /\ files' = fs
       /\ onChain' = IF submits /\ extractTransactionId(leoResult) # Null
                     THEN [onChain EXCEPT ![coinName] =
                              <<[price |-> price,
                                 line |-> Len(fs[PriceFilePath(coinName)])]>>]
                     ELSE onChain
       /\ UNCHANGED <<isInitialized, cronJob, activeTimers, stats, heap, runs,
                      restarted, config, retrievals, cronError>>
       /\ UNCHANGED <<retryVars, attestVars, evalVars, cliVars, batchVars, logVars, reqVars>>

\* A round of a periodic run or of a manual trigger.
PeriodicRound ==
    \E coinName \in Coins, price \in DriftPrices, leoResult \in DelegateOutcomes :
        SetSgxDataRound(coinName, FALSE, price, leoResult)

\* A round of a deviation run.
DeviationRound ==
    \E coinName \in Coins, price \in DriftPrices, leoResult \in DelegateOutcomes :
        SetSgxDataRound(coinName, TRUE, price, leoResult)

NextDrift == PeriodicRound \/ DeviationRound

SpecDrift == InitDrift /\ [][NextDrift]_vars

\* The log of a coin.
PriceLog(c) == files[PriceFilePath(c)]

\* Every price logged for the coin after its last accepted submission moved
\* by less than the threshold from the price logged before it.
SmallMovesSinceSubmission(c) ==
    \A k \in (onChain[c][1].line + 1)..Len(PriceLog(c)) :
        ~checkTokenPriceDeviation(c, PriceLog(c)[k], [price |-> PriceLog(c)[k - 1]])

\* C36: after a round of a deviation run, when every price logged for the
\* coin since its last accepted submission (the one of this round
\* included) moved by less than the threshold from the previously logged
\* price, the retrieved price is less than the threshold away from the
\* price on chain.
C36_SmallMovesKeepSubmittedPriceCurrent ==
    [][\A c \in Coins, price \in DriftPrices, leoResult \in DelegateOutcomes :
          (/\ onChain[c] # <<>>
           /\ SetSgxDataRound(c, TRUE, price, leoResult)
           /\ SmallMovesSinceSubmission(c)')
          => ~checkTokenPriceDeviation(c, price,
                                       [price |-> onChain'[c][1].price])]_vars
====
